---- MODULE Spec2Model ----
(***************************************************************************)
(* A model of the zero-touch-training parsers and overlay assembler.       *)
(*                                                                         *)
(* BPMN part (src/poc/parsers/bpmn_parser.py): BpmnParser.parse turns an   *)
(* XML document into a BpmnProcess, whose derived views are                *)
(* ordered_elements (a breadth-first walk over the sequence flows),        *)
(* decision_points, get_flow_label, get_outgoing_flows and                 *)
(* get_element_by_id.                                                      *)
(*                                                                         *)
(* An XML element is a record [tag, id, name, sourceRef, targetRef, kids]: *)
(* its qualified tag, the attributes the parser reads (Absent when the     *)
(* attribute is not written) and its child elements in document order.     *)
(* The fields documentation, incoming, outgoing and default_flow, and the  *)
(* participants, message flows and data objects of a process, take no part *)
(* in any view modelled here and are left out.                             *)
(*                                                                         *)
(* Task.transaction_code (same file) is modelled on task names spelled out *)
(* character by character.                                                 *)
(*                                                                         *)
(* Tosca part (src/poc/parsers/tosca_parser.py): ToscaParser.parse turns   *)
(* an XML document, in the Tosca namespace or not, into a ToscaTestScript  *)
(* with its steps, annotations and test data; the derived properties are   *)
(* is_user_action, is_verification, user_action_steps and                  *)
(* site_specific_steps.  Texts are sequences of characters.                *)
(*                                                                         *)
(* Overlay part (src/poc/assembler/overlay.py): OpalOverlayAssembler.load  *)
(* reads the overlay files path by path, resolve builds the structure the  *)
(* generators consume.  Mappings are functions from their keys.            *)
(* Its queries (get_overlays_for_transaction and the filtered views), a    *)
(* caller that writes into a resolved structure, and threads that read     *)
(* while load runs, are modelled on the same state.                        *)
(*                                                                         *)
(* Pipeline part: run_generators (src/poc/run.py) runs the requested       *)
(* layers one by one; BaseGenerator.call_claude                            *)
(* (src/poc/generators/base.py) sends a request up to three times.         *)
(***************************************************************************)
EXTENDS Integers, Sequences, FiniteSets, TLC

VARIABLES
    doc,        \* the XML document handed to BpmnParser.parse (its root element)
    process,    \* the BpmnProcess parse returned, NoProcess before and on failure
    err,        \* the exception that ended parse, "" when none
    pc,         \* "start" | "raised" | "idle" | "bfs"
    queue,      \* ordered_elements: the work queue of the traversal
    visited,    \* ordered_elements: the ids already expanded
    ordered,    \* ordered_elements: the elements emitted so far
    ret,        \* the last call and what it returned: [op, args, result]
    task,       \* a Task whose name is spelled out character by character
    tosca,      \* the XML document handed to ToscaParser.parse (its root element)
    script,     \* the ToscaTestScript parse returned, NoScript before and on failure
    overlay_paths,  \* OpalOverlayAssembler.overlay_paths: the file behind each path
    raw_overlays,   \* OpalOverlayAssembler.raw_overlays
    site_info,      \* OpalOverlayAssembler.site_info
    path_i,         \* load: the number of paths the loop is done with
    readers,        \* the threads that read the assembler: what each is doing
    environ,        \* os.environ: whether ANTHROPIC_API_KEY is set
    layers,         \* run_generators: the layer names asked for
    layer_i,        \* run_generators: the number of names the loop is done with
    gen_results,    \* run_generators: results, layer name -> output paths
    ran,            \* run_generators: the layers whose generate() was called
    attempt,        \* call_claude: the attempt under way, counted from 0
    replies         \* call_claude: what each request sent so far was answered

\* the variables of the reader threads, of run_generators and of call_claude
extras == <<readers, environ, layers, layer_i, gen_results, ran, attempt, replies>>

\* the variables of the Tosca parser, the overlay assembler and the task name
others == <<task, tosca, script, overlay_paths, raw_overlays, site_info, path_i, extras>>

vars == <<doc, process, err, pc, queue, visited, ordered, ret, others>>

(***************************************************************************)
(* Bounds of the explored inputs.                                          *)
(***************************************************************************)
MaxFlows == 3          \* sequence flows of a traversal document
MaxVariantFlows == 2   \* sequence flows of a document with unusual elements
MaxLabelFlows == 3     \* labelled sequence flows of a document
MaxElems == 3          \* flow elements of an element-only document
MaxRootKids == 2       \* children of the root of a header document

SeqsUpTo(S, n) == UNION {[1..k -> S] : k \in 0..n}

MapSeq(s, f(_)) == [i \in DOMAIN s |-> f(s[i])]

RECURSIVE Flatten(_)
Flatten(ss) == IF ss = <<>> THEN <<>> ELSE Head(ss) \o Flatten(Tail(ss))

(***************************************************************************)
(* Text is a sequence of characters, each a string of length one.          *)
(***************************************************************************)
UpperCase ==
    <<"A", "B", "C", "D", "E", "F", "G", "H", "I", "J", "K", "L", "M",
      "N", "O", "P", "Q", "R", "S", "T", "U", "V", "W", "X", "Y", "Z">>

LowerCase ==
    <<"a", "b", "c", "d", "e", "f", "g", "h", "i", "j", "k", "l", "m",
      "n", "o", "p", "q", "r", "s", "t", "u", "v", "w", "x", "y", "z">>

Digits == <<"0", "1", "2", "3", "4", "5", "6", "7", "8", "9">>

CharsOf(s) == {s[i] : i \in DOMAIN s}

(***************************************************************************)
(* XML documents.                                                          *)
(***************************************************************************)
Absent == "<absent>"

XmlNode(tag, id, name, src, tgt, kids) ==
    [tag |-> tag, id |-> id, name |-> name, sourceRef |-> src,
     targetRef |-> tgt, kids |-> kids]

ElemNode(tag, id) == XmlNode(tag, id, Absent, Absent, Absent, <<>>)

FlowNode(src, tgt, name) ==
    XmlNode("bpmn:sequenceFlow", Absent, name, src, tgt, <<>>)

ProcNode(id, kids) == XmlNode("bpmn:process", id, Absent, Absent, Absent, kids)

RootNode(kids) == XmlNode("bpmn:definitions", Absent, Absent, Absent, Absent, kids)

\* element.get(key, ""): the attribute, the empty string when it is not written
Get(node, key) == IF node[key] = Absent THEN "" ELSE node[key]

\* element.findall(tag): the direct children with that tag, in document order
FindAll(node, tag) == SelectSeq(node.kids, LAMBDA n : n.tag = tag)

NoNode == XmlNode("", Absent, Absent, Absent, Absent, <<>>)

\* element.find(tag): the first direct child with that tag, None (NoNode) if none
Find(node, tag) ==
    LET hits == FindAll(node, tag)
    IN  IF hits = <<>> THEN NoNode ELSE Head(hits)

(***************************************************************************)
(* The process model (the dataclasses).                                    *)
(***************************************************************************)
Task(id, name) ==
    [cls |-> "Task", id |-> id, name |-> name, gateway_type |-> "", event_type |-> ""]

Gateway(id, name, gateway_type) ==
    [cls |-> "Gateway", id |-> id, name |-> name, gateway_type |-> gateway_type,
     event_type |-> ""]

Event(id, name, event_type) ==
    [cls |-> "Event", id |-> id, name |-> name, gateway_type |-> "",
     event_type |-> event_type]

\* Python's None where an element is expected
None == [cls |-> "None", id |-> "", name |-> "", gateway_type |-> "", event_type |-> ""]

SequenceFlow(id, name, source_ref, target_ref) ==
    [id |-> id, name |-> name, source_ref |-> source_ref, target_ref |-> target_ref]

BpmnProcess(id, name, tasks, gateways, events, sequence_flows) ==
    [cls |-> "BpmnProcess", id |-> id, name |-> name, tasks |-> tasks,
     gateways |-> gateways, events |-> events, sequence_flows |-> sequence_flows]

NoProcess ==
    [cls |-> "None", id |-> "", name |-> "", tasks |-> <<>>, gateways |-> <<>>,
     events |-> <<>>, sequence_flows |-> <<>>]

(***************************************************************************)
(* BpmnParser.parse                                                        *)
(***************************************************************************)
_parse_task(task_el) == Task(Get(task_el, "id"), Get(task_el, "name"))

_parse_gateway(gw_el, gw_type) == Gateway(Get(gw_el, "id"), Get(gw_el, "name"), gw_type)

_parse_event(ev_el, ev_type) == Event(Get(ev_el, "id"), Get(ev_el, "name"), ev_type)

TaskTags ==
    <<"bpmn:task", "bpmn:userTask", "bpmn:serviceTask", "bpmn:sendTask",
      "bpmn:receiveTask">>

GatewayTags ==
    << <<"exclusive", "bpmn:exclusiveGateway">>,
       <<"parallel", "bpmn:parallelGateway">>,
       <<"inclusive", "bpmn:inclusiveGateway">> >>

EventTags ==
    << <<"start", "bpmn:startEvent">>,
       <<"intermediate", "bpmn:intermediateThrowEvent">>,
       <<"intermediate", "bpmn:intermediateCatchEvent">>,
       <<"end", "bpmn:endEvent">> >>

ParseTasks(process_el) ==
    Flatten([i \in DOMAIN TaskTags |->
                MapSeq(FindAll(process_el, TaskTags[i]), _parse_task)])

ParseGateways(process_el) ==
    Flatten([i \in DOMAIN GatewayTags |->
                MapSeq(FindAll(process_el, GatewayTags[i][2]),
                       LAMBDA el : _parse_gateway(el, GatewayTags[i][1]))])

ParseEvents(process_el) ==
    Flatten([i \in DOMAIN EventTags |->
                MapSeq(FindAll(process_el, EventTags[i][2]),
                       LAMBDA el : _parse_event(el, EventTags[i][1]))])

ParseFlows(process_el) ==
    MapSeq(FindAll(process_el, "bpmn:sequenceFlow"),
           LAMBDA el : SequenceFlow(Get(el, "id"), Get(el, "name"),
                                    Get(el, "sourceRef"), Get(el, "targetRef")))

\* Variant: the process element is searched among all descendants of the root
\* (".//bpmn:process") instead of among its children.
RECURSIVE FindDeepIn(_, _)
FindDeepIn(kids, tag) ==
    IF kids = <<>> THEN NoNode
    ELSE IF Head(kids).tag = tag THEN Head(kids)
    ELSE LET below == FindDeepIn(Head(kids).kids, tag)
         IN  IF below # NoNode THEN below ELSE FindDeepIn(Tail(kids), tag)

FindProcessDeep(root) == FindDeepIn(root.kids, "bpmn:process")

\* root.find("bpmn:process", NS)
FindProcess(root) == Find(root, "bpmn:process")

\* Variant: the process takes its id from the name attribute.
ProcessIdFromName(process_el) == Get(process_el, "name")

ProcessId(process_el) == Get(process_el, "id")

ParseProcess(process_el) ==
    BpmnProcess(ProcessId(process_el), Get(process_el, "name"),
                ParseTasks(process_el), ParseGateways(process_el),
                ParseEvents(process_el), ParseFlows(process_el))

Parse ==
    /\ pc = "start"
    /\ LET process_el == FindProcess(doc)
       IN  IF process_el = NoNode
           THEN /\ pc' = "raised"
                /\ err' = "ValueError"
                /\ process' = NoProcess
           ELSE /\ pc' = "idle"
                /\ err' = ""
                /\ process' = ParseProcess(process_el)
    /\ UNCHANGED <<others, doc, queue, visited, ordered, ret>>

(***************************************************************************)
(* BpmnProcess.ordered_elements                                            *)
(***************************************************************************)
\* flow_map: source_ref -> the target_refs of its flows, in flow order
flow_map(p) ==
    LET sources == {p.sequence_flows[i].source_ref : i \in DOMAIN p.sequence_flows}
    IN  [s \in sources |->
            MapSeq(SelectSeq(p.sequence_flows, LAMBDA f : f.source_ref = s),
                   LAMBDA f : f.target_ref)]

\* flow_map.get(current_id, [])
FlowMapGet(p, id) == IF id \in DOMAIN flow_map(p) THEN flow_map(p)[id] ELSE <<>>

AllElements(p) == p.tasks \o p.gateways \o p.events

\* the keys of a dict filled in this order: each key at its first insertion
RECURSIVE FirstKeys(_, _)
FirstKeys(all, seen) ==
    IF all = <<>> THEN <<>>
    ELSE IF Head(all).id \in seen THEN FirstKeys(Tail(all), seen)
    ELSE <<Head(all).id>> \o FirstKeys(Tail(all), seen \cup {Head(all).id})

\* elements: id -> element; a later element with the same id replaces the value
elements(p) ==
    LET all == AllElements(p)
        ids == {all[i].id : i \in DOMAIN all}
        last(id) == CHOOSE i \in DOMAIN all :
                        /\ all[i].id = id
                        /\ \A j \in DOMAIN all : all[j].id = id => j <= i
    IN  [keys |-> FirstKeys(all, {}), at |-> [id \in ids |-> all[last(id)]]]

\* Variant: the fallback returns the tasks only.
ElementsValuesTasksOnly(p) == p.tasks

\* list(elements.values())
ElementsValues(p) ==
    LET d == elements(p) IN [i \in DOMAIN d.keys |-> d.at[d.keys[i]]]

\* the first event with event_type "start", None when there is none
StartEvent(p) ==
    LET starts == SelectSeq(p.events, LAMBDA ev : ev.event_type = "start")
    IN  IF starts = <<>> THEN None ELSE Head(starts)

\* Variant: queue.pop() takes the newest entry (a stack).
QueuePopLast(q) == [current_id |-> q[Len(q)], rest |-> SubSeq(q, 1, Len(q) - 1)]

\* Variant: queue[0] reads the head and leaves it in the queue.
QueuePeek(q) == [current_id |-> Head(q), rest |-> q]

\* current_id = queue.pop(0)
QueuePop(q) == [current_id |-> Head(q), rest |-> Tail(q)]

\* Variant: the test at the head of the loop is missing.
NeverVisited(seen, id) == FALSE

\* if current_id in visited: continue
AlreadyVisited(seen, id) == id \in seen

\* Variant: ordered.append(elements.get(current_id)) emits None for an unknown id.
EmitOrNone(p, id) ==
    IF id \in DOMAIN elements(p).at THEN <<elements(p).at[id]>> ELSE <<None>>

\* if current_id in elements: ordered.append(elements[current_id])
Emit(p, id) ==
    IF id \in DOMAIN elements(p).at THEN <<elements(p).at[id]>> ELSE <<>>

\* for next_id in flow_map.get(current_id, []): if next_id not in visited: append
Enqueue(p, rest, id, seen) ==
    rest \o SelectSeq(FlowMapGet(p, id), LAMBDA next_id : next_id \notin seen)

NoRet == [op |-> "none", args |-> <<>>, result |-> <<>>]

\* ordered_elements up to the start of the traversal
OrderedElementsBegin ==
    /\ pc = "idle"
    /\ IF StartEvent(process) = None
       THEN /\ ret' = [op |-> "ordered_elements", args |-> <<>>,
                       result |-> ElementsValues(process)]
            /\ UNCHANGED <<pc, queue, visited, ordered>>
       ELSE /\ pc' = "bfs"
            /\ queue' = <<StartEvent(process).id>>
            /\ visited' = {}
            /\ ordered' = <<>>
            /\ ret' = NoRet
    /\ UNCHANGED <<others, doc, process, err>>

\* one iteration of the while loop
BfsStep ==
    /\ pc = "bfs"
    /\ queue # <<>>
    /\ LET current_id == QueuePop(queue).current_id
           rest == QueuePop(queue).rest
       IN  IF AlreadyVisited(visited, current_id)
           THEN /\ queue' = rest
                /\ UNCHANGED <<visited, ordered>>
           ELSE /\ visited' = visited \cup {current_id}
                /\ ordered' = ordered \o Emit(process, current_id)
                /\ queue' = Enqueue(process, rest, current_id,
                                    visited \cup {current_id})
    /\ UNCHANGED <<others, doc, process, err, pc, ret>>

\* the loop ends on an empty queue: return ordered
BfsReturn ==
    /\ pc = "bfs"
    /\ queue = <<>>
    /\ ret' = [op |-> "ordered_elements", args |-> <<>>, result |-> ordered]
    /\ pc' = "idle"
    /\ queue' = <<>>
    /\ visited' = {}
    /\ ordered' = <<>>
    /\ UNCHANGED <<others, doc, process, err>>

(***************************************************************************)
(* The other views of a BpmnProcess                                        *)
(***************************************************************************)
\* Variant: every gateway that is not parallel counts as a decision.
IsDecisionNotParallel(gw) == gw.gateway_type # "parallel"

IsDecision(gw) == gw.gateway_type = "exclusive"

decision_points(p) == SelectSeq(p.gateways, IsDecision)

RECURSIVE LastFlowLabel(_, _, _)
\* Variant: the label of the last matching flow.
LastFlowLabel(flows, source_id, target_id) ==
    IF flows = <<>> THEN ""
    ELSE LET flow == flows[Len(flows)]
         IN  IF flow.source_ref = source_id /\ flow.target_ref = target_id
             THEN flow.name
             ELSE LastFlowLabel(SubSeq(flows, 1, Len(flows) - 1), source_id, target_id)

RECURSIVE FlowLabel(_, _, _)
\* the loop of get_flow_label over the flows still to visit
FlowLabel(flows, source_id, target_id) ==
    IF flows = <<>> THEN ""
    ELSE IF Head(flows).source_ref = source_id /\ Head(flows).target_ref = target_id
         THEN Head(flows).name
         ELSE FlowLabel(Tail(flows), source_id, target_id)

get_flow_label(p, source_id, target_id) ==
    FlowLabel(p.sequence_flows, source_id, target_id)

\* Variant: the flows are matched on their target.
FlowLeavesByTarget(flow, element_id) == flow.target_ref = element_id

FlowLeaves(flow, element_id) == flow.source_ref = element_id

RECURSIVE OutgoingFlows(_, _, _)
\* the loop of get_outgoing_flows: results so far, flows still to visit
OutgoingFlows(results, flows, element_id) ==
    IF flows = <<>> THEN results
    ELSE OutgoingFlows(
             IF FlowLeaves(Head(flows), element_id)
             THEN Append(results, <<Head(flows).target_ref, Head(flows).name>>)
             ELSE results,
             Tail(flows), element_id)

get_outgoing_flows(p, element_id) == OutgoingFlows(<<>>, p.sequence_flows, element_id)

\* the first element of the list with that id, None when there is none
FirstWithId(list, element_id) ==
    LET hits == SelectSeq(list, LAMBDA e : e.id = element_id)
    IN  IF hits = <<>> THEN None ELSE Head(hits)

get_element_by_id(p, element_id) ==
    IF FirstWithId(p.tasks, element_id) # None THEN FirstWithId(p.tasks, element_id)
    ELSE IF FirstWithId(p.gateways, element_id) # None
         THEN FirstWithId(p.gateways, element_id)
         ELSE FirstWithId(p.events, element_id)

Ids == {"s", "a", "b", "c"}

\* the ids the flow queries are asked about
QueryIds == {"a", "b"}

DecisionPoints ==
    /\ pc = "idle"
    /\ ret' = [op |-> "decision_points", args |-> <<>>,
               result |-> decision_points(process)]
    /\ UNCHANGED <<others, doc, process, err, pc, queue, visited, ordered>>

GetFlowLabel ==
    /\ pc = "idle"
    /\ \E source_id \in QueryIds, target_id \in QueryIds :
          ret' = [op |-> "get_flow_label", args |-> <<source_id, target_id>>,
                  result |-> get_flow_label(process, source_id, target_id)]
    /\ UNCHANGED <<others, doc, process, err, pc, queue, visited, ordered>>

GetOutgoingFlows ==
    /\ pc = "idle"
    /\ \E element_id \in QueryIds :
          ret' = [op |-> "get_outgoing_flows", args |-> <<element_id>>,
                  result |-> get_outgoing_flows(process, element_id)]
    /\ UNCHANGED <<others, doc, process, err, pc, queue, visited, ordered>>

GetElementById ==
    /\ pc = "idle"
    /\ \E element_id \in Ids :
          ret' = [op |-> "get_element_by_id", args |-> <<element_id>>,
                  result |-> get_element_by_id(process, element_id)]
    /\ UNCHANGED <<others, doc, process, err, pc, queue, visited, ordered>>

(***************************************************************************)
(* The documents explored.                                                 *)
(***************************************************************************)
\* A well-formed process: a start event, a task, a gateway and an end event.
CanonElems ==
    <<ElemNode("bpmn:startEvent", "s"), ElemNode("bpmn:task", "a"),
      ElemNode("bpmn:exclusiveGateway", "b"), ElemNode("bpmn:endEvent", "c")>>

\* Flows among the four ids; none leaves the end event "c".
FlowNodes == {FlowNode(src, tgt, Absent) : src \in {"s", "a", "b"}, tgt \in Ids}

\* Flows between "a" and "b" with and without a label.
LabelFlowNodes ==
    {FlowNode(src, tgt, name) : src \in QueryIds, tgt \in QueryIds,
                                name \in {Absent, "Yes", "No"}}

\* Element lists a well-formed process does not have: no start event, two
\* start events, an id carried twice, an id of the flows that names no
\* element, and the remaining task and event tags.
VariantElems ==
    { <<ElemNode("bpmn:task", "a"), ElemNode("bpmn:parallelGateway", "b"),
        ElemNode("bpmn:endEvent", "c")>>,
      <<ElemNode("bpmn:endEvent", "c"), ElemNode("bpmn:inclusiveGateway", "b"),
        ElemNode("bpmn:userTask", "a"), ElemNode("bpmn:task", "s")>>,
      <<ElemNode("bpmn:startEvent", "s"), ElemNode("bpmn:startEvent", "a"),
        ElemNode("bpmn:task", "b")>>,
      <<ElemNode("bpmn:startEvent", "s"), ElemNode("bpmn:task", "a"),
        ElemNode("bpmn:inclusiveGateway", "a"), ElemNode("bpmn:endEvent", "c")>>,
      <<ElemNode("bpmn:task", "a"), ElemNode("bpmn:endEvent", "a"),
        ElemNode("bpmn:parallelGateway", "b")>>,
      <<ElemNode("bpmn:startEvent", "s"), ElemNode("bpmn:exclusiveGateway", "b"),
        ElemNode("bpmn:endEvent", "c")>>,
      <<ElemNode("bpmn:startEvent", "s"), ElemNode("bpmn:task", "a")>>,
      <<ElemNode("bpmn:serviceTask", "c"), ElemNode("bpmn:startEvent", "s"),
        ElemNode("bpmn:userTask", "a"), ElemNode("bpmn:sendTask", "b")>>,
      <<ElemNode("bpmn:endEvent", "c"), ElemNode("bpmn:intermediateCatchEvent", "b"),
        ElemNode("bpmn:intermediateThrowEvent", "a"), ElemNode("bpmn:startEvent", "s"),
        ElemNode("bpmn:receiveTask", "r")>> }

\* Tasks and gateways of every type, in any document order.
FlowElemNodes ==
    {ElemNode(tag, id) :
        tag \in {"bpmn:task", "bpmn:exclusiveGateway", "bpmn:parallelGateway",
                 "bpmn:inclusiveGateway"},
        id \in QueryIds}

\* Children of the root: a collaboration, a process with or without an id,
\* and an element that wraps a process (which is then not top-level).
RootKidNodes ==
    {ElemNode("bpmn:collaboration", Absent)}
    \cup {ProcNode(id, kids) : id \in {Absent, "", "P1"},
                               kids \in {<<>>, <<ElemNode("bpmn:task", "a")>>}}
    \cup {XmlNode("bpmn:extension", Absent, Absent, Absent, Absent,
                  <<ProcNode("P2", <<ElemNode("bpmn:task", "b")>>)>>)}

TraversalDocs ==
    {RootNode(<<ProcNode("P1", CanonElems \o flows)>>) :
        flows \in SeqsUpTo(FlowNodes, MaxFlows)}

VariantDocs ==
    {RootNode(<<ProcNode("P1", elems \o flows)>>) :
        elems \in VariantElems, flows \in SeqsUpTo(FlowNodes, MaxVariantFlows)}

LabelDocs ==
    {RootNode(<<ProcNode("P1", CanonElems \o flows)>>) :
        flows \in SeqsUpTo(LabelFlowNodes, MaxLabelFlows)}

ElementDocs ==
    {RootNode(<<ProcNode("P1", elems)>>) : elems \in SeqsUpTo(FlowElemNodes, MaxElems)}

HeaderDocs == {RootNode(kids) : kids \in SeqsUpTo(RootKidNodes, MaxRootKids)}

\* the components a specification leaves alone rest in these values
NoTask == [cls |-> "Task", id |-> "", name |-> <<>>]

NoTosca == [ns |-> FALSE, root |-> [tag |-> "", text |-> <<>>, kids |-> <<>>]]

NoScript ==
    [cls |-> "None", script_id |-> <<>>, name |-> <<>>, description |-> <<>>,
     version |-> <<>>, process |-> <<>>, transaction |-> <<>>, site_code |-> <<>>,
     site_name |-> <<>>, system_name |-> <<>>, execution_status |-> <<>>,
     execution_count |-> 0, last_executed |-> <<>>, steps |-> <<>>,
     annotations |-> <<>>, test_data |-> <<>>]

ReadersIdle == readers = <<>>

LayersIdle ==
    /\ environ = [api_key |-> TRUE]
    /\ layers = <<>>
    /\ layer_i = 0
    /\ gen_results = <<>>
    /\ ran = <<>>

CallIdle == attempt = 0 /\ replies = <<>>

RestIdle == ReadersIdle /\ LayersIdle /\ CallIdle

OthersIdle ==
    /\ task = NoTask
    /\ tosca = NoTosca
    /\ script = NoScript
    /\ overlay_paths = <<>>
    /\ raw_overlays = <<>>
    /\ site_info = <<>>
    /\ path_i = 0
    /\ RestIdle

InitWith(docs) ==
    /\ OthersIdle
    /\ doc \in docs
    /\ process = NoProcess
    /\ err = ""
    /\ pc = "start"
    /\ queue = <<>>
    /\ visited = {}
    /\ ordered = <<>>
    /\ ret = NoRet

(***************************************************************************)
(* Specifications.                                                         *)
(*   Spec       parse, the traversal and the element lookup                *)
(*   SpecFair   the same, where a traversal under way takes its next step  *)
(*   SpecViews  parse and the views over gateways and flows                *)
(***************************************************************************)
Init == InitWith(TraversalDocs \cup VariantDocs \cup HeaderDocs)

Next ==
    \/ Parse
    \/ OrderedElementsBegin
    \/ BfsStep
    \/ BfsReturn
    \/ GetElementById

Spec == Init /\ [][Next]_vars

\* ordered_elements runs to completion once called: no iteration of its loop
\* waits on anything.
SpecFair == Spec /\ WF_vars(BfsStep) /\ WF_vars(BfsReturn)

InitViews == InitWith(LabelDocs \cup ElementDocs \cup HeaderDocs)

NextViews ==
    \/ Parse
    \/ DecisionPoints
    \/ GetFlowLabel
    \/ GetOutgoingFlows

SpecViews == InitViews /\ [][NextViews]_vars

(***************************************************************************)
(* Vocabulary of the properties, stated on the process and not through the *)
(* operators above.                                                        *)
(***************************************************************************)
Range(s) == {s[i] : i \in DOMAIN s}

Flows == process.sequence_flows

ElementSet == Range(process.tasks) \cup Range(process.gateways) \cup Range(process.events)

ElementCount == Len(process.tasks) + Len(process.gateways) + Len(process.events)

ElementIds == {e.id : e \in ElementSet}

\* spec.md, data model: the id of an element is unique
UniqueIds == Cardinality(ElementIds) = ElementCount

StartEvents == {i \in DOMAIN process.events : process.events[i].event_type = "start"}

FirstStartId == process.events[CHOOSE i \in StartEvents : \A j \in StartEvents : i <= j].id

\* the ids one flow away from an id of N
Image(N) == {Flows[i].target_ref : i \in {j \in DOMAIN Flows : Flows[j].source_ref \in N}}

RECURSIVE ReachFrom(_)
\* the ids reachable from N over the flows, N included
ReachFrom(N) == IF Image(N) \subseteq N THEN N ELSE ReachFrom(N \cup Image(N))

FlowRefs ==
    {Flows[i].source_ref : i \in DOMAIN Flows} \cup {Flows[i].target_ref : i \in DOMAIN Flows}

Acyclic == \A n \in FlowRefs : n \notin ReachFrom(Image({n}))

\* ids of flows that name no element
Dangling == FlowRefs \ ElementIds

\* the k-th (from 1) of the indices in I, a set of indices, is i
Rank(I, i) == 1 + Cardinality({j \in I : j < i})

\* s is the subsequence of t at the indices I
IsSubSeqAt(s, t, I) ==
    /\ Len(s) = Cardinality(I)
    /\ \A i \in I : s[Rank(I, i)] = t[i]

MinOf(I) == CHOOSE i \in I : \A j \in I : i <= j

SeqIds(s) == [i \in DOMAIN s |-> s[i].id]

NoRepeat(s) == \A i, j \in DOMAIN s : i # j => s[i] # s[j]

\* the target_refs of the flows leaving n, in flow order
RefSuccessors(n) ==
    LET I == {i \in DOMAIN Flows : Flows[i].source_ref = n}
    IN  [k \in 1..Cardinality(I) |-> Flows[CHOOSE i \in I : Rank(I, i) = k].target_ref]

RECURSIVE RefNew(_, _)
\* the ids of s not in seen, each at its first occurrence
RefNew(s, seen) ==
    IF s = <<>> THEN <<>>
    ELSE IF Head(s) \in seen THEN RefNew(Tail(s), seen)
    ELSE <<Head(s)>> \o RefNew(Tail(s), seen \cup {Head(s)})

RECURSIVE RefLevels(_, _)
\* Reference breadth-first traversal, level by level: the next level is the
\* ids found from the current one, in the order found, that no level holds.
RefLevels(level, seen) ==
    IF level = <<>> THEN <<>>
    ELSE LET next == RefNew(Flatten([i \in DOMAIN level |-> RefSuccessors(level[i])]), seen)
         IN  level \o RefLevels(next, seen \cup Range(next))

RefBfsIds == RefLevels(<<FirstStartId>>, {FirstStartId})

IsResult(op) == pc = "idle" /\ ret.op = op

C2_NoElementTwice ==
    (pc \in {"idle", "bfs"} /\ StartEvents # {}) =>
        /\ NoRepeat(SeqIds(ordered))
        /\ ret.op = "ordered_elements" => NoRepeat(SeqIds(ret.result))
        /\ err = ""

\* a cycle through the start event and two flows into the same target
C2_Witness ==
    /\ IsResult("ordered_elements")
    /\ StartEvents # {}
    /\ FirstStartId \in ReachFrom(Image({FirstStartId}))
    /\ \E i, j \in DOMAIN Flows : i # j /\ Flows[i] = Flows[j]
    /\ Len(ret.result) >= 2

(***************************************************************************)
(* C3  A traversal under way ends with a result, cycles or not: every      *)
(* iteration either expands an id not expanded before or shortens the      *)
(* queue, an expanded id staying expanded.                                 *)
(***************************************************************************)
TraversalIds == FlowRefs \cup {e.id : e \in Range(process.events)}

Unexpanded == Cardinality(TraversalIds \ visited)

C3_TraversalTerminates ==
    /\ (pc = "bfs") ~> (pc = "idle" /\ ret.op = "ordered_elements")
    /\ [][(pc = "bfs" /\ pc' = "bfs") =>
            /\ visited \subseteq visited'
            /\ \/ Unexpanded' < Unexpanded
               \/ Unexpanded' = Unexpanded /\ Len(queue') < Len(queue)]_vars

\* a traversal over a self-loop and a cycle through the start event has ended
C3_Witness ==
    /\ IsResult("ordered_elements")
    /\ StartEvents # {}
    /\ FirstStartId \in ReachFrom(Image({FirstStartId}))
    /\ \E i \in DOMAIN Flows :
          Flows[i].source_ref = Flows[i].target_ref /\ Flows[i].source_ref # FirstStartId
    /\ Len(ret.result) >= 2

HasTopLevelProcess == \E i \in DOMAIN doc.kids : doc.kids[i].tag = "bpmn:process"

C5_ParseFailsIffNoProcess ==
    pc # "start" =>
        IF HasTopLevelProcess
        THEN err = "" /\ pc # "raised" /\ process.cls = "BpmnProcess"
        ELSE err = "ValueError" /\ pc = "raised" /\ process = NoProcess

\* the only process element of the document is nested: parse has raised
C5_Witness ==
    /\ pc = "raised" /\ err = "ValueError"
    /\ ~HasTopLevelProcess
    /\ \E i \in DOMAIN doc.kids :
          \E k \in DOMAIN doc.kids[i].kids : doc.kids[i].kids[k].tag = "bpmn:process"

(***************************************************************************)
(* C6  As claimed: every process parse returns has a non-empty id.         *)
(***************************************************************************)
C6_ProcessIdNonEmpty == process.cls = "BpmnProcess" => process.id # ""

(***************************************************************************)
(* C6, amended  The id of the process parse returns is the id attribute of *)
(* the first process element under the root, and the empty string when     *)
(* that element has no id attribute.                                       *)
(***************************************************************************)
FirstProcessEl ==
    doc.kids[MinOf({i \in DOMAIN doc.kids : doc.kids[i].tag = "bpmn:process"})]

C6_ProcessIdIsAttribute ==
    process.cls = "BpmnProcess" =>
        /\ FirstProcessEl.id = Absent => process.id = ""
        /\ FirstProcessEl.id # Absent => process.id = FirstProcessEl.id

\* a process element without an id attribute, before one that has an id
C6_Witness ==
    /\ process.cls = "BpmnProcess"
    /\ FirstProcessEl.id = Absent
    /\ process.id = ""
    /\ \E i \in DOMAIN doc.kids : doc.kids[i].id = "P1"

(***************************************************************************)
(* C7  decision_points is the list of the exclusive gateways, in the order *)
(* of the gateways list: a gateway is in it if and only if its type is     *)
(* exclusive.                                                              *)
(***************************************************************************)
C7_DecisionPointsExclusive ==
    IsResult("decision_points") =>
        LET gws == process.gateways
        IN  /\ \A i \in DOMAIN gws :
                  gws[i] \in Range(ret.result) <=> gws[i].gateway_type = "exclusive"
            /\ IsSubSeqAt(ret.result, gws,
                          {i \in DOMAIN gws : gws[i].gateway_type = "exclusive"})

\* two exclusive gateways kept in order, a gateway of another type left out
C7_Witness ==
    /\ IsResult("decision_points")
    /\ Len(ret.result) = 2 /\ ret.result[1].id = "b" /\ ret.result[2].id = "a"
    /\ \E i \in DOMAIN process.gateways : process.gateways[i].gateway_type = "inclusive"

(***************************************************************************)
(* C8  get_outgoing_flows(a) is the list of the (target_ref, name) pairs   *)
(* of the flows with source_ref a, one per flow, in flow order.            *)
(***************************************************************************)
C8_OutgoingFlowsExact ==
    IsResult("get_outgoing_flows") =>
        LET a == ret.args[1]
            pairs == [i \in DOMAIN Flows |-> <<Flows[i].target_ref, Flows[i].name>>]
        IN  /\ IsSubSeqAt(ret.result, pairs, {i \in DOMAIN Flows : Flows[i].source_ref = a})
            /\ \A i \in DOMAIN Flows :
                  Flows[i].source_ref = a => pairs[i] \in Range(ret.result)

\* two flows leave a, one to each target, around a flow that leaves b
C8_Witness ==
    /\ IsResult("get_outgoing_flows")
    /\ ret.args = <<"a">>
    /\ Len(Flows) = 3 /\ Flows[2].source_ref = "b" /\ Flows[2].target_ref = "a"
    /\ ret.result = << <<"b", "Yes">>, <<"a", "">> >>

(***************************************************************************)
(* C9  get_flow_label(source, target) is the name of the first flow from   *)
(* source to target, empty or not, and the empty string without one.       *)
(***************************************************************************)
C9_FlowLabelFirstMatch ==
    IsResult("get_flow_label") =>
        LET I == {i \in DOMAIN Flows :
                     /\ Flows[i].source_ref = ret.args[1]
                     /\ Flows[i].target_ref = ret.args[2]}
        IN  ret.result = IF I = {} THEN "" ELSE Flows[MinOf(I)].name

\* the first flow from a to b has no name, a later one is labelled
C9_Witness ==
    /\ IsResult("get_flow_label")
    /\ ret.args = <<"a", "b">>
    /\ ret.result = ""
    /\ \E i, j \in DOMAIN Flows :
          /\ i < j
          /\ Flows[i].source_ref = "a" /\ Flows[i].target_ref = "b" /\ Flows[i].name = ""
          /\ Flows[j].source_ref = "a" /\ Flows[j].target_ref = "b" /\ Flows[j].name = "Yes"

(***************************************************************************)
(* C10  Flows may name ids that no element carries: parse does not fail,   *)
(* ordered_elements emits only tasks, gateways and events of the process,  *)
(* none for such an id, and get_element_by_id of such an id is None.       *)
(***************************************************************************)
C10_DanglingTolerated ==
    /\ (pc # "start" /\ HasTopLevelProcess) => (err = "" /\ pc # "raised")
    /\ Range(ordered) \subseteq ElementSet
    /\ ret.op = "ordered_elements" =>
          /\ Range(ret.result) \subseteq ElementSet
          /\ \A e \in Range(ret.result) : e.id \notin Dangling
    /\ (ret.op = "get_element_by_id" /\ ret.args[1] \in Dangling) => ret.result = None

\* the traversal went through an id that names no element and emitted what
\* lies behind it
C10_Witness ==
    /\ IsResult("ordered_elements")
    /\ "a" \in Dangling
    /\ [i \in DOMAIN Flows |-> <<Flows[i].source_ref, Flows[i].target_ref>>]
          = << <<"s", "a">>, <<"a", "b">> >>
    /\ SeqIds(ret.result) = <<"s", "b">>

(***************************************************************************)
(* Task.transaction_code                                                   *)
(*   re.search(r'\(([A-Z0-9]{2,10})\)', self.name)                          *)
(***************************************************************************)
\* [A-Z0-9]
CodeClass == CharsOf(UpperCase) \cup CharsOf(Digits)

\* {2,10}
MinCodeLen == 2

MaxCodeLen == 10

\* Variant: a single character between the parentheses is a code as well
CodeLengthsFromOne == 1..MaxCodeLen

CodeLengths == MinCodeLen..MaxCodeLen

\* the number of characters of [A-Z0-9] the repetition takes from position i
\* on: as many as there are, up to the most the repetition allows
RECURSIVE Greedy(_, _, _)
Greedy(name, i, n) ==
    IF n < MaxCodeLen /\ i + n <= Len(name) /\ name[i + n] \in CodeClass
    THEN Greedy(name, i, n + 1)
    ELSE n

\* the repetition gives characters back, one at a time, until a ")" follows
\* it or it is shorter than the pattern allows: the length matched, 0 if none
RECURSIVE Backtrack(_, _, _)
Backtrack(name, i, n) ==
    IF n \notin CodeLengths THEN 0
    ELSE IF i + n <= Len(name) /\ name[i + n] = ")" THEN n
    ELSE Backtrack(name, i, n - 1)

\* the pattern tried at position i: the length of the code, 0 if no match
MatchAt(name, i) ==
    IF name[i] = "(" THEN Backtrack(name, i + 1, Greedy(name, i + 1, 0)) ELSE 0

\* re.search: the match at the leftmost position that has one
RECURSIVE Search(_, _)
Search(name, i) ==
    IF i > Len(name) THEN <<>>
    ELSE IF MatchAt(name, i) > 0 THEN SubSeq(name, i + 1, i + MatchAt(name, i))
    ELSE Search(name, i + 1)

\* match.group(1) if match else ""
transaction_code(t) == Search(t.name, 1)

TransactionCode ==
    /\ pc = "idle"
    /\ task # NoTask
    /\ ret' = [op |-> "transaction_code", args |-> <<>>, result |-> transaction_code(task)]
    /\ UNCHANGED <<doc, process, err, pc, queue, visited, ordered, others>>

\* the BPMN process of the specifications that are about something else
BpmnIdle ==
    /\ doc = NoNode
    /\ process = NoProcess
    /\ err = ""
    /\ queue = <<>>
    /\ visited = {}
    /\ ordered = <<>>
    /\ ret = NoRet

\* task names are put together from these pieces
MaxNameSegs == 3

NameSegs ==
    { <<"(">>, <<")">>, <<" ">>, <<"P", "o", "s", "t">>, <<"(", "A", ")">>, <<"(", "m", "e",
            "5", "1", "n", ")">>, <<"(", "M", "E", "5", "1", "N", ")">>, <<"(", "M", "I", "G",
                    "O", ")">>,
      <<"M", "B", "1", "A", "5", "6", "7", "8", "9", "0">>, <<"M", "B", "1", "A", "5", "6",
              "7", "8", "9", "0", "1">> }

TaskNames == {Flatten(ss) : ss \in SeqsUpTo(NameSegs, MaxNameSegs)}

InitTxn ==
    /\ BpmnIdle
    /\ pc = "idle"
    /\ task \in {[cls |-> "Task", id |-> "t", name |-> n] : n \in TaskNames \ {<<>>}}
            \cup {[cls |-> "Task", id |-> "u", name |-> <<>>]}
    /\ tosca = NoTosca
    /\ script = NoScript
    /\ overlay_paths = <<>>
    /\ raw_overlays = <<>>
    /\ site_info = <<>>
    /\ path_i = 0
    /\ RestIdle

NextTxn == TransactionCode

SpecTxn == InitTxn /\ [][NextTxn]_vars

(***************************************************************************)
(* C11                                                                     *)
(***************************************************************************)
\* a code token starts at position i of the name: "(", then n characters
\* that are upper-case letters or digits, then ")"
TokenAt(name, i, n) ==
    /\ i + n + 1 <= Len(name)
    /\ name[i] = "("
    /\ \A k \in 1..n : name[i + k] \in CharsOf(UpperCase) \cup CharsOf(Digits)
    /\ name[i + n + 1] = ")"

Tokens(name) == {h \in (1..Len(name)) \X (2..10) : TokenAt(name, h[1], h[2])}

FirstToken(name) == CHOOSE h \in Tokens(name) : \A g \in Tokens(name) : h[1] <= g[1]

\* C11: transaction_code is the text between the parentheses of the first
\* token of the name that is "(", two to ten upper-case letters or digits,
\* ")"; it is the empty string when the name has no such token (tokens in
\* lower case, shorter than two or longer than ten are passed over).
C11_TransactionCodeFirstToken ==
    IsResult("transaction_code") =>
        IF Tokens(task.name) = {}
        THEN ret.result = <<>>
        ELSE ret.result = SubSeq(task.name, FirstToken(task.name)[1] + 1,
                                 FirstToken(task.name)[1] + FirstToken(task.name)[2])

\* a lower-case token comes first and is passed over, two more tokens
\* follow and the first of them is returned
C11_Witness ==
    /\ IsResult("transaction_code")
    /\ task.name = <<"(", "m", "e", "5", "1", "n", ")">>
                      \o <<"(", "M", "E", "5", "1", "N", ")", "(", "M", "I", "G", "O", ")">>
    /\ ret.result = <<"M", "E", "5", "1", "N">>

(***************************************************************************)
(* Tosca test scripts: the XML document.                                   *)
(*   An element is its local tag name, its text and its children; the      *)
(*   document says whether its elements are in the Tosca namespace.        *)
(***************************************************************************)
El(tag, text, kids) == [tag |-> tag, text |-> text, kids |-> kids]

\* what find returns when nothing matches: None
NoEl == El("", <<>>, <<>>)

\* parent.find(tag): the first direct child with that tag
TFind(parent, tag) ==
    LET hits == SelectSeq(parent.kids, LAMBDA k : k.tag = tag)
    IN  IF hits = <<>> THEN NoEl ELSE Head(hits)

\* parent.findall(tag): the direct children with that tag, in document order
TFindAll(parent, tag) == SelectSeq(parent.kids, LAMBDA k : k.tag = tag)

\* the descendants of an element in document order
RECURSIVE Descendants(_)
Descendants(el) ==
    Flatten([i \in DOMAIN el.kids |-> <<el.kids[i]>> \o Descendants(el.kids[i])])

\* root.findall(".//tag"): the descendants with that tag, in document order
TFindAllDeep(root, tag) == SelectSeq(Descendants(root), LAMBDA k : k.tag = tag)

\* root.find(".//tag")
TFindDeep(root, tag) ==
    LET hits == TFindAllDeep(root, tag)
    IN  IF hits = <<>> THEN NoEl ELSE Head(hits)

\* bool(element) in lxml: an element is true when it has children
Truthy(el) == el # NoEl /\ el.kids # <<>>

\* a or b, on elements
OrEl(a, b) == IF Truthy(a) THEN a ELSE b

\* a or b, on strings and on lists
OrSeq(a, b) == IF a # <<>> THEN a ELSE b

Whitespace == {" "}

RECURSIVE StripLeft(_)
StripLeft(s) ==
    IF s # <<>> /\ Head(s) \in Whitespace THEN StripLeft(Tail(s)) ELSE s

RECURSIVE StripRight(_)
StripRight(s) ==
    IF s # <<>> /\ s[Len(s)] \in Whitespace
    THEN StripRight(SubSeq(s, 1, Len(s) - 1)) ELSE s

\* str.strip()
Strip(s) == StripRight(StripLeft(s))

\* _text(parent, "t:" + tag, ns)
_text(parent, tag) ==
    LET el == IF parent = NoEl THEN NoEl ELSE TFind(parent, tag)
    IN  IF el = NoEl THEN <<>> ELSE Strip(el.text)

\* _text_plain(parent, tag)
_text_plain(parent, tag) ==
    LET el == IF parent = NoEl THEN NoEl ELSE TFind(parent, tag)
    IN  IF el = NoEl THEN <<>> ELSE Strip(el.text)

\* the digits of a numeral, its sign taken off
Unsigned(s) == IF s # <<>> /\ Head(s) \in {"+", "-"} THEN Tail(s) ELSE s

\* int(s) succeeds: an optional sign and at least one digit
IsInt(s) == Unsigned(s) # <<>> /\ CharsOf(Unsigned(s)) \subseteq CharsOf(Digits)

DigitValue(c) == CHOOSE d \in 0..9 : Digits[d + 1] = c

RECURSIVE Magnitude(_)
Magnitude(s) ==
    IF s = <<>> THEN 0
    ELSE 10 * Magnitude(SubSeq(s, 1, Len(s) - 1)) + DigitValue(s[Len(s)])

\* int(s or "0"), where it succeeds
IntOrZero(s) ==
    IF s = <<>> THEN 0
    ELSE IF Head(s) = "-" THEN 0 - Magnitude(Unsigned(s)) ELSE Magnitude(Unsigned(s))

\* Variant: int(s), which raises on the empty string as well
IntRaisesOnEmpty(s) == ~IsInt(s)

\* int(s or "0") raises ValueError
IntRaises(s) == s # <<>> /\ ~IsInt(s)

(***************************************************************************)
(* Tosca test scripts: the dataclasses.                                    *)
(***************************************************************************)
Assertion(type, field_reference, expected_value, allowed_values, validation_type, reason) ==
    [type |-> type, field_reference |-> field_reference,
     expected_value |-> expected_value, allowed_values |-> allowed_values,
     validation_type |-> validation_type, reason |-> reason]

UIElement(identifier, description) ==
    [cls |-> "UIElement", identifier |-> identifier, description |-> description]

\* TestStep.element = None
NoUIElement == [cls |-> "None", identifier |-> <<>>, description |-> <<>>]

Annotation(type, step_id, description) ==
    [type |-> type, step_id |-> step_id, description |-> description]

TestDataRow(field_name, field_value, field_description) ==
    [field_name |-> field_name, field_value |-> field_value,
     field_description |-> field_description]

(***************************************************************************)
(* ToscaParser._parse_with_namespace                                       *)
(***************************************************************************)
_parse_step_ns(step_el) ==
    LET action_el == TFind(step_el, "Action")
        elem_el   == IF action_el # NoEl THEN TFind(action_el, "Element") ELSE NoEl
    IN  [step_id         |-> _text(step_el, "StepId"),
         step_number     |-> IntOrZero(_text(step_el, "StepNumber")),
         description     |-> _text(step_el, "Description"),
         action_type     |-> IF action_el # NoEl THEN _text(action_el, "Type") ELSE <<>>,
         element         |-> IF elem_el # NoEl
                             THEN UIElement(_text(elem_el, "Identifier"),
                                            _text(elem_el, "Description"))
                             ELSE NoUIElement,
         value           |-> IF action_el # NoEl THEN _text(action_el, "Value") ELSE <<>>,
         target_url      |-> IF action_el # NoEl THEN _text(action_el, "TargetURL") ELSE <<>>,
         expected_result |-> _text(step_el, "ExpectedResult"),
         screenshot      |-> _text(step_el, "ScreenshotReference"),
         assertions      |->
            LET els == TFindAll(step_el, "Assertion")
            IN  [i \in DOMAIN els |->
                    Assertion(_text(els[i], "Type"), _text(els[i], "FieldReference"),
                              _text(els[i], "ExpectedValue"), _text(els[i], "AllowedValues"),
                              _text(els[i], "ValidationType"), _text(els[i], "Reason"))]]

\* root.findall(".//t:Step", ns)
StepElementsNs(root) == TFindAllDeep(root, "Step")

_parse_with_namespace(root) ==
    LET metadata == TFind(root, "Metadata")
        env      == TFind(root, "TestEnvironment")
        step_els == StepElementsNs(root)
        ann_els  == TFindAllDeep(root, "Annotation")
        row_els  == TFindAllDeep(root, "DataRow")
    IN  [cls              |-> "ToscaTestScript",
         script_id        |-> _text(metadata, "TestScriptId"),
         name             |-> _text(metadata, "Name"),
         description      |-> _text(metadata, "Description"),
         version          |-> _text(metadata, "Version"),
         process          |-> <<>>,
         transaction      |-> <<>>,
         execution_status |-> _text(metadata, "ExecutionStatus"),
         execution_count  |-> IntOrZero(_text(metadata, "ExecutionCount")),
         last_executed    |-> _text(metadata, "LastExecutedDate"),
         site_code        |-> IF env # NoEl THEN _text(env, "SiteCode") ELSE <<>>,
         site_name        |-> IF env # NoEl THEN _text(env, "SiteName") ELSE <<>>,
         system_name      |-> IF env # NoEl THEN _text(env, "SystemName") ELSE <<>>,
         steps            |-> [i \in DOMAIN step_els |-> _parse_step_ns(step_els[i])],
         annotations      |->
            [i \in DOMAIN ann_els |->
                Annotation(_text(ann_els[i], "Type"), _text(ann_els[i], "Step"),
                           _text(ann_els[i], "Description"))],
         test_data        |->
            [i \in DOMAIN row_els |->
                TestDataRow(_text(row_els[i], "FieldName"), _text(row_els[i], "FieldValue"),
                            _text(row_els[i], "FieldDescription"))]]

\* the int() calls of _parse_with_namespace and _parse_step_ns: one of them raises
RaisesNs(root) ==
    \/ IntRaises(_text(TFind(root, "Metadata"), "ExecutionCount"))
    \/ LET step_els == StepElementsNs(root)
       IN  \E i \in DOMAIN step_els : IntRaises(_text(step_els[i], "StepNumber"))

(***************************************************************************)
(* ToscaParser._parse_without_namespace                                    *)
(***************************************************************************)
_parse_step_plain(step_el) ==
    LET action_el == TFind(step_el, "Action")
        elem_el   == IF action_el # NoEl THEN TFind(action_el, "Element") ELSE NoEl
    IN  [step_id         |-> _text_plain(step_el, "StepId"),
         step_number     |-> IntOrZero(_text_plain(step_el, "StepNumber")),
         description     |-> _text_plain(step_el, "Description"),
         action_type     |-> IF action_el # NoEl THEN _text_plain(action_el, "Type") ELSE <<>>,
         element         |-> IF elem_el # NoEl
                             THEN UIElement(_text_plain(elem_el, "Identifier"),
                                            _text_plain(elem_el, "Description"))
                             ELSE NoUIElement,
         value           |-> IF action_el # NoEl THEN _text_plain(action_el, "Value") ELSE <<>>,
         target_url      |-> IF action_el # NoEl
                             THEN _text_plain(action_el, "TargetURL") ELSE <<>>,
         expected_result |-> _text_plain(step_el, "ExpectedResult"),
         screenshot      |-> _text_plain(step_el, "ScreenshotReference"),
         assertions      |->
            LET els == TFindAll(step_el, "Assertion")
            IN  [i \in DOMAIN els |->
                    Assertion(_text_plain(els[i], "Type"),
                              _text_plain(els[i], "FieldReference"),
                              _text_plain(els[i], "ExpectedValue"),
                              _text_plain(els[i], "AllowedValues"),
                              _text_plain(els[i], "ValidationType"),
                              _text_plain(els[i], "Reason"))]]

\* steps_container.findall("Step") or steps_container.findall("step"), for
\* steps_container = root.find(".//TestSteps") or root.find(".//steps")
StepElementsPlain(root) ==
    LET steps_container == OrEl(TFindDeep(root, "TestSteps"), TFindDeep(root, "steps"))
    IN  IF steps_container # NoEl
        THEN OrSeq(TFindAll(steps_container, "Step"), TFindAll(steps_container, "step"))
        ELSE <<>>

_parse_without_namespace(root) ==
    LET metadata == OrEl(TFind(root, "Metadata"), TFind(root, "metadata"))
        env      == OrEl(TFind(root, "TestEnvironment"), TFind(root, "testEnvironment"))
        step_els == StepElementsPlain(root)
        annotations_container == TFindDeep(root, "Annotations")
        ann_els  == IF annotations_container # NoEl
                    THEN TFindAll(annotations_container, "Annotation") ELSE <<>>
        row_els  == TFindAllDeep(root, "DataRow")
    IN  [cls              |-> "ToscaTestScript",
         script_id        |-> _text_plain(metadata, "TestScriptId"),
         name             |-> OrSeq(_text_plain(metadata, "Name"),
                                    _text_plain(metadata, "name")),
         description      |-> OrSeq(_text_plain(metadata, "Description"),
                                    _text_plain(metadata, "description")),
         version          |-> OrSeq(_text_plain(metadata, "Version"),
                                    _text_plain(metadata, "version")),
         process          |-> <<>>,
         transaction      |-> <<>>,
         execution_status |-> OrSeq(_text_plain(metadata, "ExecutionStatus"),
                                    _text_plain(metadata, "status")),
         execution_count  |-> IntOrZero(_text_plain(metadata, "ExecutionCount")),
         last_executed    |-> OrSeq(_text_plain(metadata, "LastExecutedDate"),
                                    _text_plain(metadata, "last_executed")),
         site_code        |-> IF env # NoEl THEN _text_plain(env, "SiteCode") ELSE <<>>,
         site_name        |-> IF env # NoEl THEN _text_plain(env, "SiteName") ELSE <<>>,
         system_name      |-> IF env # NoEl THEN _text_plain(env, "SystemName") ELSE <<>>,
         steps            |-> [i \in DOMAIN step_els |-> _parse_step_plain(step_els[i])],
         annotations      |->
            [i \in DOMAIN ann_els |->
                Annotation(_text_plain(ann_els[i], "Type"), _text_plain(ann_els[i], "Step"),
                           _text_plain(ann_els[i], "Description"))],
         test_data        |->
            [i \in DOMAIN row_els |->
                TestDataRow(_text_plain(row_els[i], "FieldName"),
                            _text_plain(row_els[i], "FieldValue"),
                            _text_plain(row_els[i], "FieldDescription"))]]

\* the int() calls of _parse_without_namespace and _parse_step_plain
RaisesPlain(root) ==
    \/ IntRaises(_text_plain(OrEl(TFind(root, "Metadata"), TFind(root, "metadata")),
                             "ExecutionCount"))
    \/ LET step_els == StepElementsPlain(root)
       IN  \E i \in DOMAIN step_els : IntRaises(_text_plain(step_els[i], "StepNumber"))

(***************************************************************************)
(* ToscaParser.parse                                                       *)
(***************************************************************************)
\* the script parse returns for a document, when it returns
ParseScript(d) ==
    IF d.ns THEN _parse_with_namespace(d.root) ELSE _parse_without_namespace(d.root)

\* parse raises ValueError for a document
ParseRaises(d) == IF d.ns THEN RaisesNs(d.root) ELSE RaisesPlain(d.root)

ToscaParse ==
    /\ pc = "start"
    /\ tosca # NoTosca
    /\ IF ParseRaises(tosca)
       THEN /\ pc' = "raised"
            /\ err' = "ValueError"
            /\ script' = NoScript
       ELSE /\ pc' = "idle"
            /\ err' = ""
            /\ script' = ParseScript(tosca)
    /\ UNCHANGED <<doc, process, queue, visited, ordered, ret>>
    /\ UNCHANGED <<extras, task, tosca, overlay_paths, raw_overlays, site_info, path_i>>

(***************************************************************************)
(* TestStep and ToscaTestScript: the derived properties.                   *)
(***************************************************************************)
UpperChar(c) ==
    IF \E k \in DOMAIN LowerCase : LowerCase[k] = c
    THEN UpperCase[CHOOSE k \in DOMAIN LowerCase : LowerCase[k] = c] ELSE c

LowerChar(c) ==
    IF \E k \in DOMAIN UpperCase : UpperCase[k] = c
    THEN LowerCase[CHOOSE k \in DOMAIN UpperCase : UpperCase[k] = c] ELSE c

\* str.upper()
Upper(s) == [i \in DOMAIN s |-> UpperChar(s[i])]

\* str.lower()
Lower(s) == [i \in DOMAIN s |-> LowerChar(s[i])]

\* sub in s
Contains(s, sub) ==
    \E i \in 0..(Len(s) - Len(sub)) : SubSeq(s, i + 1, i + Len(sub)) = sub

\* Variant: a verification counts as a user action as well
UserActionTypesAndVerify == {<<"N", "A", "V", "I", "G", "A", "T", "E">>, <<"C", "L", "I", "C",
        "K">>, <<"I", "N", "P", "U", "T">>, <<"S", "E", "L", "E", "C", "T">>, <<"V", "E", "R",
                "I", "F", "Y">>}

UserActionTypes == {<<"N", "A", "V", "I", "G", "A", "T", "E">>, <<"C", "L", "I", "C", "K">>,
        <<"I", "N", "P", "U", "T">>, <<"S", "E", "L", "E", "C", "T">>}

VerificationTypes == {<<"V", "E", "R", "I", "F", "Y">>, <<"C", "A", "L", "C", "U", "L", "A",
        "T", "E">>}

is_user_action(step) == step.action_type \in UserActionTypes

is_verification(step) == step.action_type \in VerificationTypes

user_action_steps(s) == SelectSeq(s.steps, is_user_action)

site_specific_annotations(s) ==
    SelectSeq(s.annotations, LAMBDA a : Contains(Upper(a.type), <<"S", "P", "E", "C", "I", "F",
            "I", "C">>))

\* the test on one assertion of a step that no annotation names
SiteReason(assertion) ==
    /\ assertion.reason # <<>>
    /\ \/ Contains(Lower(assertion.reason), <<"a", "n", "n", "i", "s", "t", "o", "n">>)
       \/ Contains(Lower(assertion.reason), <<"s", "i", "t", "e">>)

site_specific_steps(s) ==
    LET anns == site_specific_annotations(s)
        site_step_ids == {anns[i].step_id : i \in DOMAIN anns}
    IN  SelectSeq(s.steps,
                  LAMBDA step :
                      \/ step.step_id \in site_step_ids
                      \/ \E i \in DOMAIN step.assertions : SiteReason(step.assertions[i]))

StepKind ==
    /\ pc = "idle"
    /\ script # NoScript
    /\ \E i \in DOMAIN script.steps :
          ret' = [op |-> "step_kind", args |-> <<i>>,
                  result |-> <<is_user_action(script.steps[i]),
                               is_verification(script.steps[i])>>]
    /\ UNCHANGED <<doc, process, err, pc, queue, visited, ordered, others>>

UserActionSteps ==
    /\ pc = "idle"
    /\ script # NoScript
    /\ ret' = [op |-> "user_action_steps", args |-> <<>>,
               result |-> user_action_steps(script)]
    /\ UNCHANGED <<doc, process, err, pc, queue, visited, ordered, others>>

SiteSpecificSteps ==
    /\ pc = "idle"
    /\ script # NoScript
    /\ ret' = [op |-> "site_specific_steps", args |-> <<>>,
               result |-> site_specific_steps(script)]
    /\ UNCHANGED <<doc, process, err, pc, queue, visited, ordered, others>>

(***************************************************************************)
(* The Tosca documents explored.                                           *)
(***************************************************************************)
TextEl(tag, text) == El(tag, text, <<>>)

ScriptDoc(ns, kids) == [ns |-> ns, root |-> El("TestScript", <<>>, kids)]

\* the step at position i of a document: its id is S<i>, its number is i
NumberedStep(i, kids) ==
    El("Step", <<>>, <<TextEl("StepId", <<"S", Digits[i + 1]>>),
                       TextEl("StepNumber", <<Digits[i + 1]>>)>> \o kids)

\* 1. steps of every kind of action
MaxSteps == 2

ActionKids ==
    {<<El("Action", <<>>, <<TextEl("Type", t)>>)>> :
        t \in {<<"N", "A", "V", "I", "G", "A", "T", "E">>, <<"C", "L", "I", "C", "K">>, <<"I",
                "N", "P", "U", "T">>, <<" ", "S", "E", "L", "E", "C", "T", " ">>, <<"V", "E",
                        "R", "I", "F", "Y">>,
               <<"C", "A", "L", "C", "U", "L", "A", "T", "E">>, <<"c", "l", "i", "c", "k">>}}
    \cup {<<>>}

KindDocs ==
    {ScriptDoc(ns, <<El("TestSteps", <<>>, [i \in DOMAIN ks |-> NumberedStep(i, ks[i])])>>) :
        ns \in BOOLEAN, ks \in SeqsUpTo(ActionKids, MaxSteps)}

\* 2. steps with assertions that give a reason, annotations that name a step,
\*    at one of two sites
MaxSiteSteps == 2

MaxAnns == 1

ReasonEl(r) == El("Assertion", <<>>, <<TextEl("Type", <<"F", "I", "E", "L", "D", "_", "R", "E",
        "Q", "U", "I", "R", "E", "D">>), TextEl("Reason", r)>>)

AssertionKids ==
    { <<>>,
      <<ReasonEl(<<"C", "h", "e", "c", "k", " ", "t", "o", "t", "a", "l">>)>>,
      <<ReasonEl(<<"O", "n", "-", "S", "i", "t", "e", " ", "r", "u", "l", "e">>)>>,
      <<ReasonEl(<<"A", "N", "N", "I", "S", "T", "O", "N", " ", "r", "u", "l", "e">>)>>,
      <<ReasonEl(<<"H", "u", "n", "t", "s", "v", "i", "l", "l", "e", " ", "r", "u", "l", "e">>)>>,
      <<El("Assertion", <<>>, <<TextEl("Type", <<"A", "L", "L", "O", "W", "E", "D", "_", "V",
              "A", "L", "U", "E", "S">>)>>),
        ReasonEl(<<"p", "e", "r", " ", "s", "i", "t", "e">>), ReasonEl(<<"A", "n", "n", "i",
                "s", "t", "o", "n", " ", "o", "n", "l", "y">>)>> }

AnnotationEls ==
    { El("Annotation", <<>>, <<TextEl("Type", <<"S", "I", "T", "E", "_", "S", "P", "E", "C",
            "I", "F", "I", "C">>), TextEl("Step", <<"S", "1">>)>>),
      El("Annotation", <<>>, <<TextEl("Type", <<"S", "i", "t", "e", "_", "S", "p", "e", "c",
              "i", "f", "i", "c">>), TextEl("Step", <<"S", "2">>)>>),
      El("Annotation", <<>>, <<TextEl("Type", <<"N", "O", "T", "E">>), TextEl("Step", <<"S",
              "1">>)>>),
      El("Annotation", <<>>, <<TextEl("Type", <<"S", "I", "T", "E", "_", "S", "P", "E", "C",
              "I", "F", "I", "C">>)>>) }

SiteDocs ==
    {ScriptDoc(ns,
        <<El("TestEnvironment", <<>>, <<TextEl("SiteName", site)>>),
          El("TestSteps", <<>>, [i \in DOMAIN as |-> NumberedStep(i, as[i])]),
          El("Annotations", <<>>, anns)>>) :
        ns \in BOOLEAN, site \in {<<"A", "n", "n", "i", "s", "t", "o", "n">>, <<"H", "u", "n",
                "t", "s", "v", "i", "l", "l", "e">>},
        as \in SeqsUpTo(AssertionKids, MaxSiteSteps),
        anns \in SeqsUpTo(AnnotationEls, MaxAnns)}

\* 3. documents with optional parts left out, and numbers written in several ways
MaxPartSteps == 2

HeaderKids ==
    { <<>>,
      <<El("Metadata", <<>>, <<>>),
        El("TestEnvironment", <<>>, <<TextEl("SiteCode", <<"1", "7", "1", "0">>)>>)>>,
      <<El("Metadata", <<>>, <<TextEl("Name", <<"G", "R">>),
                               TextEl("ExecutionCount", <<" ", "1", "2", " ">>)>>)>>,
      <<El("Metadata", <<>>, <<TextEl("Name", <<"G", "R">>),
                               TextEl("ExecutionCount", <<"m", "a", "n", "y">>)>>),
        El("TestEnvironment", <<>>, <<>>)>>,
      <<El("metadata", <<>>, <<TextEl("name", <<"g", "r">>)>>)>> }

PartSteps ==
    { El("Step", <<>>, <<>>),
      El("Step", <<>>, <<TextEl("StepId", <<"S", "1">>), TextEl("StepNumber", <<"1">>),
                         El("Action", <<>>, <<TextEl("Type", <<"C", "L", "I", "C", "K">>),
                                               El("Element", <<>>, <<TextEl("Identifier",
                                                       <<"b", "t", "n">>)>>)>>)>>),
      El("Step", <<>>, <<TextEl("StepId", <<"S", "2">>), TextEl("StepNumber", <<"2">>),
                         El("Action", <<>>, <<>>)>>),
      El("Step", <<>>, <<TextEl("StepId", <<"S", "3">>), TextEl("StepNumber", <<"-", "3">>)>>),
      El("Step", <<>>, <<TextEl("StepId", <<"S", "4">>), TextEl("StepNumber", <<>>)>>),
      El("Step", <<>>, <<TextEl("StepId", <<"S", "5">>), TextEl("StepNumber", <<"2", "a">>)>>) }

StepContainers == {"TestSteps", "steps", ""}

\* the steps in a container element, or directly under the root
Contained(tag, steps) == IF tag = "" THEN steps ELSE <<El(tag, <<>>, steps)>>

PartDocs ==
    {ScriptDoc(ns, h \o Contained(c, steps)) :
        ns \in BOOLEAN, h \in HeaderKids, c \in StepContainers,
        steps \in SeqsUpTo(PartSteps, MaxPartSteps)}

InitTosca ==
    /\ BpmnIdle
    /\ pc = "start"
    /\ task = NoTask
    /\ tosca \in KindDocs \cup PartDocs
    /\ script = NoScript
    /\ overlay_paths = <<>>
    /\ raw_overlays = <<>>
    /\ site_info = <<>>
    /\ path_i = 0
    /\ RestIdle

NextTosca == ToscaParse \/ StepKind \/ UserActionSteps

SpecTosca == InitTosca /\ [][NextTosca]_vars

InitToscaSite ==
    /\ BpmnIdle
    /\ pc = "start"
    /\ task = NoTask
    /\ tosca \in SiteDocs
    /\ script = NoScript
    /\ overlay_paths = <<>>
    /\ raw_overlays = <<>>
    /\ site_info = <<>>
    /\ path_i = 0
    /\ RestIdle

NextToscaSite == ToscaParse \/ SiteSpecificSteps

SpecToscaSite == InitToscaSite /\ [][NextToscaSite]_vars

(***************************************************************************)
(* C12                                                                     *)
(***************************************************************************)
UserTypeNames == {<<"N", "A", "V", "I", "G", "A", "T", "E">>, <<"C", "L", "I", "C", "K">>,
        <<"I", "N", "P", "U", "T">>, <<"S", "E", "L", "E", "C", "T">>}

\* C12: a step is a user action exactly when its action type is NAVIGATE,
\* CLICK, INPUT or SELECT; a user action is never a verification; and
\* user_action_steps is the steps that are user actions, in the order of
\* steps, so that no VERIFY step is among them.
C12_UserActionsExact ==
    /\ IsResult("step_kind") =>
          /\ ret.result[1] <=> script.steps[ret.args[1]].action_type \in UserTypeNames
          /\ ret.result[1] => ~ret.result[2]
    /\ IsResult("user_action_steps") =>
          /\ ret.result = SelectSeq(script.steps, LAMBDA s : s.action_type \in UserTypeNames)
          /\ \A i \in DOMAIN ret.result : ret.result[i].action_type # <<"V", "E", "R", "I",
                  "F", "Y">>

\* a SELECT step and a VERIFY step: only the first is a user action
C12_Witness ==
    /\ IsResult("user_action_steps")
    /\ Len(script.steps) = 2
    /\ script.steps[1].action_type = <<"S", "E", "L", "E", "C", "T">>
    /\ script.steps[2].action_type = <<"V", "E", "R", "I", "F", "Y">>
    /\ ret.result = <<script.steps[1]>>

(***************************************************************************)
(* C13                                                                     *)
(***************************************************************************)
\* (a) an annotation whose type contains SPECIFIC, in any case, names the step
NamedBySiteAnnotation(s, step) ==
    \E i \in DOMAIN s.annotations :
        /\ Contains(Upper(s.annotations[i].type), <<"S", "P", "E", "C", "I", "F", "I", "C">>)
        /\ s.annotations[i].step_id = step.step_id

\* (b) a reason of the step's assertions contains, in any case, one of the words
ReasonMentions(step, words) ==
    \E i \in DOMAIN step.assertions : \E w \in words :
        Contains(Lower(step.assertions[i].reason), Lower(w))

\* C13: site_specific_steps holds, once each and in the order of steps, the
\* steps that (a) a site-specific annotation names or (b) have an assertion
\* whose reason contains "site" or the script's site name, in any case.
C13_SiteStepsByScriptSite ==
    IsResult("site_specific_steps") =>
        ret.result =
            SelectSeq(script.steps,
                      LAMBDA step :
                          \/ NamedBySiteAnnotation(script, step)
                          \/ ReasonMentions(step, {<<"s", "i", "t", "e">>, script.site_name}))

(***************************************************************************)
(* C14                                                                     *)
(***************************************************************************)
\* the document with the same elements, in the namespace if this one is not
\* and out of it if this one is
Twin(d) == [d EXCEPT !.ns = ~d.ns]

\* C14: a document parsed by the namespaced path and the same content parsed
\* by the bare path give equal models: the same metadata fields, steps,
\* annotations and test data.
C14_PathsAgree ==
    (pc = "idle" /\ script # NoScript) =>
        /\ ~ParseRaises(Twin(tosca))
        /\ script = ParseScript(Twin(tosca))

(***************************************************************************)
(* C15                                                                     *)
(***************************************************************************)
\* the Step records of a document: the Step elements of its TestSteps
\* element, in the order they are written
StepRecords(d) == TFindAll(TFind(d.root, "TestSteps"), "Step")

\* the step number written in a Step record, 0 if none is
RecordNumber(el) == IntOrZero(Strip(TFind(el, "StepNumber").text))

Ascending(ns) == \A i, j \in DOMAIN ns : i < j => ns[i] <= ns[j]

\* C15: the steps list of a parsed script holds the Step records of the
\* document in the order they are written, never re-sorted; so when the
\* records carry ascending step numbers the list is sorted by step_number.
C15_StepsInSourceOrder ==
    (pc = "idle" /\ script # NoScript) =>
        LET records == StepRecords(tosca)
        IN  /\ Len(script.steps) = Len(records)
            /\ \A i \in DOMAIN records :
                  /\ i \in DOMAIN script.steps
                  /\ script.steps[i].step_id = Strip(TFind(records[i], "StepId").text)
                  /\ script.steps[i].step_number = RecordNumber(records[i])
            /\ Ascending([i \in DOMAIN records |-> RecordNumber(records[i])])
                  => Ascending([i \in DOMAIN script.steps |-> script.steps[i].step_number])

(***************************************************************************)
(* C16                                                                     *)
(***************************************************************************)
\* the document writes a number that is not one: an ExecutionCount or a
\* StepNumber whose text has a character that is no digit, sign or blank
HasBadNumber(d) ==
    LET els == Descendants(d.root)
    IN  \E i \in DOMAIN els :
            /\ els[i].tag \in {"ExecutionCount", "StepNumber"}
            /\ ~(CharsOf(els[i].text) \subseteq CharsOf(Digits) \cup {"+", "-", " "})

Lacks(el, tags) == \A i \in DOMAIN el.kids : el.kids[i].tag \notin tags

\* the Step elements the steps of the script were parsed from
ParsedStepEls(d) == IF d.ns THEN StepElementsNs(d.root) ELSE StepElementsPlain(d.root)

\* C16: parse does not raise because an optional part is missing. It raises
\* only on a number that is written and is not a number; without a Metadata
\* block the metadata texts are empty and execution_count is 0, without a
\* TestEnvironment block the site fields are empty, a step without Action has
\* an empty action type, value and URL and no UI element, a step without
\* StepNumber has step_number 0, and a script is returned all the same.
C16_MissingPartsDefault ==
    /\ pc = "raised" => HasBadNumber(tosca)
    /\ (pc # "start" /\ ~HasBadNumber(tosca)) => (pc = "idle" /\ script.cls = "ToscaTestScript")
    /\ (pc = "idle" /\ script # NoScript) =>
          /\ Lacks(tosca.root, {"Metadata", "metadata"}) =>
                /\ script.script_id = <<>> /\ script.name = <<>>
                /\ script.description = <<>> /\ script.version = <<>>
                /\ script.execution_status = <<>> /\ script.last_executed = <<>>
                /\ script.execution_count = 0
          /\ Lacks(tosca.root, {"TestEnvironment", "testEnvironment"}) =>
                /\ script.site_code = <<>> /\ script.site_name = <<>>
                /\ script.system_name = <<>>
          /\ Len(script.steps) = Len(ParsedStepEls(tosca))
          /\ LET step_els == ParsedStepEls(tosca)
             IN  \A i \in DOMAIN script.steps :
                LET el == step_els[i]
                    step == script.steps[i]
                IN  /\ Lacks(el, {"Action"}) =>
                          /\ step.action_type = <<>> /\ step.value = <<>>
                          /\ step.target_url = <<>> /\ step.element = NoUIElement
                    /\ (\A k \in DOMAIN el.kids :
                           el.kids[k].tag = "Action" => Lacks(el.kids[k], {"Element"}))
                          => step.element = NoUIElement
                    /\ Lacks(el, {"StepNumber"}) => step.step_number = 0
                    /\ Lacks(el, {"StepId"}) => step.step_id = <<>>
                    /\ Lacks(el, {"Description"}) => step.description = <<>>
                    /\ Lacks(el, {"Assertion"}) => step.assertions = <<>>

\* a namespaced document with neither Metadata nor TestEnvironment and one
\* empty Step: a script comes back with one step, all defaults
C16_Witness ==
    /\ pc = "idle"
    /\ tosca = ScriptDoc(TRUE, <<El("Step", <<>>, <<>>)>>)
    /\ script.cls = "ToscaTestScript"
    /\ script.name = <<>>
    /\ script.execution_count = 0
    /\ Len(script.steps) = 1
    /\ script.steps[1].step_number = 0
    /\ script.steps[1].action_type = <<>>
    /\ script.steps[1].element = NoUIElement

(***************************************************************************)
(* Opal overlays.                                                          *)
(*   A mapping (a Python dict, a YAML mapping) is a function from its keys *)
(*   to their values: DOMAIN d is the set of keys that are present.        *)
(***************************************************************************)
\* the empty mapping {}
EmptyDict == <<>>

\* d.get(key, default)
DictGet(d, key, default) == IF key \in DOMAIN d THEN d[key] ELSE default

\* yaml.safe_load of an empty document: None
YamlNone == [yaml_none |-> TRUE]

\* if data: a mapping with at least one key
DataTruthy(data) == data # YamlNone /\ DOMAIN data # {}

\* the file behind a path: whether it exists, and the document in it
OverlayFile(exists, data) == [exists |-> exists, data |-> data]

MissingFile == OverlayFile(FALSE, YamlNone)

(***************************************************************************)
(* OpalOverlayAssembler.load                                               *)
(***************************************************************************)
\* Variant: no test for the file: every path is opened
ExistsAlways(file) == TRUE

\* path.exists()
Exists(file) == file.exists

\* Variant: the fields of the new site mapping are laid over the old ones
SiteMergedByField(old, data) ==
    IF "site" \in DOMAIN data THEN data["site"] @@ old ELSE old

\* self.site_info = data["site"]
SiteAfter(old, data) == IF "site" \in DOMAIN data THEN data["site"] ELSE old

\* Variant: the rules of a file are put in front of the rules loaded so far
OverlaysPrepended(old, data) ==
    IF "overlays" \in DOMAIN data THEN data["overlays"] \o old ELSE old

\* self.raw_overlays.extend(data["overlays"])
OverlaysAfter(old, data) ==
    IF "overlays" \in DOMAIN data THEN old \o data["overlays"] ELSE old

\* one turn of the loop over overlay_paths
LoadStep ==
    /\ pc = "load"
    /\ path_i < Len(overlay_paths)
    /\ LET file == overlay_paths[path_i + 1]
       IN  IF ~Exists(file)
           THEN \* warning printed, continue
                /\ path_i' = path_i + 1
                /\ UNCHANGED <<raw_overlays, site_info, pc, err>>
           ELSE IF ~file.exists
           THEN \* open(path) on a file that is not there
                /\ pc' = "raised"
                /\ err' = "FileNotFoundError"
                /\ UNCHANGED <<raw_overlays, site_info, path_i>>
           ELSE /\ site_info' = IF DataTruthy(file.data)
                                THEN SiteAfter(site_info, file.data) ELSE site_info
                /\ raw_overlays' = IF DataTruthy(file.data)
                                   THEN OverlaysAfter(raw_overlays, file.data)
                                   ELSE raw_overlays
                /\ IF file.data = YamlNone
                   THEN \* data.get in the closing print, on None
                        /\ pc' = "raised"
                        /\ err' = "AttributeError"
                        /\ UNCHANGED path_i
                   ELSE /\ path_i' = path_i + 1
                        /\ UNCHANGED <<pc, err>>
    /\ UNCHANGED <<doc, process, queue, visited, ordered, ret>>
    /\ UNCHANGED <<extras, task, tosca, script, overlay_paths>>

\* the loop is through: load returns
LoadReturn ==
    /\ pc = "load"
    /\ path_i = Len(overlay_paths)
    /\ pc' = "idle"
    /\ UNCHANGED <<doc, process, err, queue, visited, ordered, ret, others>>

(***************************************************************************)
(* OpalOverlayAssembler.resolve                                            *)
(***************************************************************************)
\* the keys copied only when the variation has them
CopiedKeys == {"step", "tiers", "condition", "actions", "temperature_ranges"}

\* Variant: the copied keys are always produced
OptionalKeysAlways(variation) == CopiedKeys

OptionalKeys(variation) == CopiedKeys \cap DOMAIN variation

\* the values of the copied keys, "" for one that the variation lacks
CopiedPart(variation) ==
    [k \in OptionalKeys(variation) |-> DictGet(variation, k, "")]

ResolveVariation(variation) ==
    [type               |-> DictGet(variation, "type", ""),
     enterprise_default |-> DictGet(variation, "enterprise_default", ""),
     site_override      |-> DictGet(variation, "site_override", ""),
     reason             |-> DictGet(variation, "reason", "")]
    @@ (IF "field" \in DOMAIN variation
        THEN [field           |-> variation["field"],
              field_technical |-> DictGet(variation, "field_technical", "")]
        ELSE EmptyDict)
    @@ CopiedPart(variation)

\* Variant: a variation without a type is left out of the resolved rule
ResolveOverlayTyped(overlay) ==
    LET variations == SelectSeq(DictGet(overlay, "variations", <<>>),
                                LAMBDA v : "type" \in DOMAIN v)
    IN  [process     |-> DictGet(overlay, "process", ""),
         transaction |-> DictGet(overlay, "transaction", ""),
         variations  |-> [i \in DOMAIN variations |-> ResolveVariation(variations[i])]]

ResolveOverlay(overlay) ==
    LET variations == DictGet(overlay, "variations", <<>>)
    IN  [process     |-> DictGet(overlay, "process", ""),
         transaction |-> DictGet(overlay, "transaction", ""),
         variations  |-> [i \in DOMAIN variations |-> ResolveVariation(variations[i])]]

\* the structure resolve builds from the loaded state
Resolved ==
    [site     |-> site_info,
     overlays |-> [i \in DOMAIN raw_overlays |-> ResolveOverlay(raw_overlays[i])]]

\* Variant: with a role, the rules are filtered and none passes
ResolveForRole(role) == IF role = "" THEN Resolved ELSE [Resolved EXCEPT !.overlays = <<>>]

resolve(role) == Resolved

Roles == {"", "Buyer"}

Resolve ==
    /\ pc = "idle"
    /\ \E role \in Roles :
          ret' = [op |-> "resolve", args |-> <<role>>, result |-> resolve(role)]
    /\ UNCHANGED <<doc, process, err, pc, queue, visited, ordered, others>>

(***************************************************************************)
(* The overlay files explored.                                             *)
(***************************************************************************)
\* 1. one file with one rule: variations with many combinations of keys
MaxVariations == 2

VariationChoices ==
    { EmptyDict,
      [field |-> "Batch", enterprise_default |-> "optional",
       site_override |-> "required", reason |-> "cold chain"],
      [type |-> "field_constraint", field |-> "Batch", field_technical |-> "CHARG",
       enterprise_default |-> "optional", site_override |-> "required",
       reason |-> "cold chain"],
      [type |-> "field_constraint", field_technical |-> "CHARG"],
      [type |-> "step_variation", step |-> "", reason |-> "extra scan"],
      [type |-> "approval_rule", tiers |-> <<"up to 5000", "above 5000">>],
      [type |-> "process_gate", condition |-> "temperature logged",
       actions |-> <<"block posting">>],
      [type |-> "process_gate", temperature_ranges |-> <<>>, step |-> "4"],
      [type |-> "approval_rule", field |-> "Amount", step |-> "2",
       tiers |-> <<"one tier">>, condition |-> "always", actions |-> <<>>,
       temperature_ranges |-> <<"2-8 C">>, reason |-> "policy",
       enterprise_default |-> "one", site_override |-> "two"] }

VariationFiles ==
    {OverlayFile(TRUE, [overlays |-> <<[process |-> "goods_receipt", transaction |-> "MIGO",
                                        variations |-> vs]>>]) :
        vs \in SeqsUpTo(VariationChoices, MaxVariations)}

\* 2. several files: missing, empty, with and without site and overlays, with
\*    rules for the same transaction in different files
MaxPaths == 3

RuleBatch ==
    [process |-> "goods_receipt", transaction |-> "MIGO",
     variations |-> <<[type |-> "field_constraint", field |-> "Batch"]>>]

RuleGate ==
    [process |-> "goods_receipt", transaction |-> "MIGO",
     variations |-> <<[type |-> "process_gate", condition |-> "temperature logged"]>>]

RuleBare == [transaction |-> "ME51N"]

FileChoices ==
    { MissingFile,
      OverlayFile(TRUE, YamlNone),
      OverlayFile(TRUE, EmptyDict),
      OverlayFile(TRUE, [site |-> [name |-> "Anniston", code |-> "1710"],
                         overlays |-> <<RuleBatch>>]),
      OverlayFile(TRUE, [site |-> [name |-> "Huntsville"],
                         overlays |-> <<RuleGate, RuleBare>>]),
      OverlayFile(TRUE, [overlays |-> <<RuleBatch>>]),
      OverlayFile(TRUE, [site |-> [name |-> "Anniston", region |-> "south"]]) }

PathLists == SeqsUpTo(FileChoices, MaxPaths) \cup {<<f>> : f \in VariationFiles}

\* OpalOverlayAssembler(overlay_paths), load() called
InitOverlay ==
    /\ BpmnIdle
    /\ pc = "load"
    /\ task = NoTask
    /\ tosca = NoTosca
    /\ script = NoScript
    /\ overlay_paths \in PathLists
    /\ raw_overlays = <<>>
    /\ site_info = EmptyDict
    /\ path_i = 0
    /\ RestIdle

NextOverlay == LoadStep \/ LoadReturn \/ Resolve

SpecOverlay == InitOverlay /\ [][NextOverlay]_vars

(***************************************************************************)
(* C17                                                                     *)
(***************************************************************************)
\* the overlays list a file holds, empty if the file or the list is not there
FileOverlays(file) ==
    IF file.exists /\ "overlays" \in DOMAIN file.data THEN file.data["overlays"] ELSE <<>>

\* the positions of the files that hold a site mapping
SitePositions(paths) ==
    {i \in DOMAIN paths : paths[i].exists /\ "site" \in DOMAIN paths[i].data}

\* the site mapping of the last file that has one, {} if none has
LastSite(paths) ==
    IF SitePositions(paths) = {} THEN EmptyDict
    ELSE paths[CHOOSE i \in SitePositions(paths) :
                   \A j \in SitePositions(paths) : j <= i].data["site"]

AllFilesExist == \A i \in DOMAIN overlay_paths : overlay_paths[i].exists

\* C17: after load over files that all exist, raw_overlays is the overlays
\* lists of the documents one after the other, in path order and document
\* order, nothing dropped, merged or deduplicated; site_info is the whole
\* site mapping of the last document that has one.
C17_LoadConcatenatesLastSiteWins ==
    (pc = "idle" /\ AllFilesExist) =>
        /\ raw_overlays = Flatten([i \in DOMAIN overlay_paths |-> FileOverlays(overlay_paths[i])])
        /\ site_info = LastSite(overlay_paths)

\* three files: the first and the second hold the same MIGO rule, the first
\* a site with a code, the third a site without: both copies of the rule
\* remain and the site has no code
C17_Witness ==
    /\ pc = "idle"
    /\ Len(overlay_paths) = 3
    /\ AllFilesExist
    /\ raw_overlays = <<RuleBatch, RuleBatch, RuleGate, RuleBare>>
    /\ site_info = [name |-> "Huntsville"]

(***************************************************************************)
(* C18                                                                     *)
(***************************************************************************)
\* the loop of load is at a path whose file does not exist
AtMissingPath ==
    /\ pc = "load"
    /\ path_i < Len(overlay_paths)
    /\ ~overlay_paths[path_i + 1].exists

SomeFileMissing == \E i \in DOMAIN overlay_paths : ~overlay_paths[i].exists

\* C18: load skips a path that does not exist without raising: the step
\* leaves raw_overlays and site_info as they are and the loop goes on to the
\* next path; when load returns, the files after the missing one are loaded.
C18_MissingPathSkipped ==
    /\ [][AtMissingPath =>
             /\ pc' = "load"
             /\ path_i' = path_i + 1
             /\ raw_overlays' = raw_overlays
             /\ site_info' = site_info]_vars
    /\ []((pc = "idle" /\ SomeFileMissing) =>
             /\ raw_overlays = Flatten([i \in DOMAIN overlay_paths |->
                                           FileOverlays(overlay_paths[i])])
             /\ site_info = LastSite(overlay_paths))

\* a missing file between two files that exist: the rules of both are loaded
C18_Witness ==
    /\ pc = "idle"
    /\ Len(overlay_paths) = 3
    /\ overlay_paths[2] = MissingFile
    /\ raw_overlays = <<RuleBatch, RuleGate, RuleBare>>
    /\ site_info = [name |-> "Huntsville"]

(***************************************************************************)
(* C19                                                                     *)
(***************************************************************************)
RawVariations(i) == DictGet(raw_overlays[i], "variations", <<>>)

\* C19: every resolved variation has type, enterprise_default, site_override
\* and reason; it has step, tiers, condition, actions, temperature_ranges
\* exactly when the raw variation has that key, and field and
\* field_technical exactly when the raw variation has field.
C19_AbsentKeysStayAbsent ==
    IsResult("resolve") =>
        /\ Len(ret.result.overlays) = Len(raw_overlays)
        /\ \A i \in DOMAIN raw_overlays :
              /\ Len(ret.result.overlays[i].variations) = Len(RawVariations(i))
              /\ \A j \in DOMAIN RawVariations(i) :
                    LET v == RawVariations(i)[j]
                        r == ret.result.overlays[i].variations[j]
                    IN  /\ {"type", "enterprise_default", "site_override", "reason"}
                              \subseteq DOMAIN r
                        /\ \A k \in {"step", "tiers", "condition", "actions",
                                     "temperature_ranges"} :
                              k \in DOMAIN r <=> k \in DOMAIN v
                        /\ "field" \in DOMAIN r <=> "field" \in DOMAIN v
                        /\ "field_technical" \in DOMAIN r <=> "field" \in DOMAIN v

\* a variation with only field, enterprise_default, site_override and reason:
\* resolved, it has no step and has an empty field_technical
C19_Witness ==
    /\ IsResult("resolve")
    /\ Len(raw_overlays) = 1
    /\ RawVariations(1) = <<[field |-> "Batch", enterprise_default |-> "optional",
                             site_override |-> "required", reason |-> "cold chain"]>>
    /\ DOMAIN ret.result.overlays[1].variations[1]
          = {"type", "enterprise_default", "site_override", "reason", "field",
             "field_technical"}
    /\ ret.result.overlays[1].variations[1].field_technical = ""

HoldsResolved == pc = "idle" /\ ret.op \in {"resolve", "changed"}

Changed(result) == [op |-> "changed", args |-> <<>>, result |-> result]

\* result["site"]["name"] = "changed"
CallerSetsSiteName ==
    /\ HoldsResolved
    /\ LET site == [name |-> "changed"] @@ ret.result.site
       IN  /\ ret' = Changed([ret.result EXCEPT !.site = site])
           /\ site_info' = site
    /\ UNCHANGED <<doc, process, err, pc, queue, visited, ordered>>
    /\ UNCHANGED <<extras, task, tosca, script, overlay_paths, raw_overlays, path_i>>

\* the list-valued keys of a variation
ListKeys == {"tiers", "actions", "temperature_ranges"}

\* result["overlays"][i]["variations"][j][k].append("changed")
CallerAppendsToList ==
    /\ HoldsResolved
    /\ Len(ret.result.overlays) = Len(raw_overlays)
    /\ \E i \in DOMAIN raw_overlays :
       \E j \in DOMAIN DictGet(raw_overlays[i], "variations", <<>>) :
       \E k \in ListKeys \cap DOMAIN raw_overlays[i].variations[j] :
          /\ k \in DOMAIN ret.result.overlays[i].variations[j]
          /\ ret.result.overlays[i].variations[j][k] = raw_overlays[i].variations[j][k]
          /\ "changed" \notin Range(raw_overlays[i].variations[j][k])
          /\ LET list == Append(raw_overlays[i].variations[j][k], "changed")
             IN  /\ ret' = Changed([ret.result EXCEPT
                                       !.overlays[i].variations[j][k] = list])
                 /\ raw_overlays' = [raw_overlays EXCEPT ![i].variations[j][k] = list]
    /\ UNCHANGED <<doc, process, err, pc, queue, visited, ordered>>
    /\ UNCHANGED <<extras, task, tosca, script, overlay_paths, site_info, path_i>>

\* result["overlays"][i]["transaction"] = "changed"
CallerSetsTransaction ==
    /\ HoldsResolved
    /\ \E i \in DOMAIN ret.result.overlays :
          ret' = Changed([ret.result EXCEPT !.overlays[i].transaction = "changed"])
    /\ UNCHANGED <<doc, process, err, pc, queue, visited, ordered, others>>

NextCaller ==
    \/ LoadStep
    \/ LoadReturn
    \/ Resolve
    \/ CallerSetsSiteName
    \/ CallerAppendsToList
    \/ CallerSetsTransaction

SpecCaller == InitOverlay /\ [][NextCaller]_vars

(***************************************************************************)
(* C21                                                                     *)
(***************************************************************************)
\* C21: resolve leaves raw_overlays and site_info as load left them, and
\* what it returns shares nothing with the assembler: after resolve, and
\* after the caller has changed the returned structure (its site mapping or
\* a list value of a variation), raw_overlays and site_info are still what
\* the files gave.
C21_ResolveSharesNothing ==
    HoldsResolved =>
        /\ raw_overlays = Flatten([i \in DOMAIN overlay_paths |->
                                      FileOverlays(overlay_paths[i])])
        /\ site_info = LastSite(overlay_paths)

(***************************************************************************)
(* OpalOverlayAssembler.get_overlays_for_transaction and its views         *)
(***************************************************************************)
\* Variant: the code is compared without its case and without a trailing digit
TransactionMatchesLoosely(overlay, code) ==
    DictGet(overlay, "transaction", "")
        = (IF code \in {"migo", "MIGO8"} THEN "MIGO" ELSE code)

\* overlay.get("transaction", "") == code
TransactionMatches(overlay, code) ==
    DictGet(overlay, "transaction", "") = code

get_overlays_for_transaction(code) ==
    Flatten([i \in DOMAIN raw_overlays |->
                IF TransactionMatches(raw_overlays[i], code)
                THEN DictGet(raw_overlays[i], "variations", <<>>) ELSE <<>>])

\* Variant: a variation counts as a field constraint by its field_technical
HasFieldTechnical(v) == "field_technical" \in DOMAIN v

\* "field" in v
HasField(v) == "field" \in DOMAIN v

\* v.get("type") == type
HasType(v, type) == "type" \in DOMAIN v /\ v["type"] = type

get_field_constraints(code) ==
    SelectSeq(get_overlays_for_transaction(code), HasField)

get_process_gates(code) ==
    SelectSeq(get_overlays_for_transaction(code),
              LAMBDA v : HasType(v, "process_gate"))

get_approval_rules(code) ==
    SelectSeq(get_overlays_for_transaction(code),
              LAMBDA v : HasType(v, "approval_rule"))

\* the transaction codes asked for
QueryCodes == {"MIGO", "migo", "MIGO8", "ME51N", ""}

GetOverlaysForTransaction ==
    /\ pc = "idle"
    /\ \E code \in QueryCodes :
          ret' = [op |-> "get_overlays_for_transaction", args |-> <<code>>,
                  result |-> get_overlays_for_transaction(code)]
    /\ UNCHANGED <<doc, process, err, pc, queue, visited, ordered, others>>

GetFieldConstraints ==
    /\ pc = "idle"
    /\ \E code \in QueryCodes :
          ret' = [op |-> "get_field_constraints", args |-> <<code>>,
                  result |-> get_field_constraints(code)]
    /\ UNCHANGED <<doc, process, err, pc, queue, visited, ordered, others>>

GetProcessGates ==
    /\ pc = "idle"
    /\ \E code \in QueryCodes :
          ret' = [op |-> "get_process_gates", args |-> <<code>>,
                  result |-> get_process_gates(code)]
    /\ UNCHANGED <<doc, process, err, pc, queue, visited, ordered, others>>

GetApprovalRules ==
    /\ pc = "idle"
    /\ \E code \in QueryCodes :
          ret' = [op |-> "get_approval_rules", args |-> <<code>>,
                  result |-> get_approval_rules(code)]
    /\ UNCHANGED <<doc, process, err, pc, queue, visited, ordered, others>>

NextQueries ==
    \/ LoadStep
    \/ LoadReturn
    \/ Resolve
    \/ GetOverlaysForTransaction
    \/ GetFieldConstraints
    \/ GetProcessGates
    \/ GetApprovalRules

SpecQueries == InitOverlay /\ [][NextQueries]_vars

(***************************************************************************)
(* C22                                                                     *)
(***************************************************************************)
\* the positions of the loaded rules whose transaction is written exactly as t
RulesFor(t) ==
    {i \in DOMAIN raw_overlays :
        "transaction" \in DOMAIN raw_overlays[i] /\ raw_overlays[i].transaction = t}

\* C22: get_overlays_for_transaction(code) is the variations of the loaded
\* rules whose transaction is exactly code, rule after rule and variation
\* after variation; it is empty when no rule matches, as for a code in
\* another case or with one character more.
C22_ExactTransactionMatch ==
    IsResult("get_overlays_for_transaction") =>
        /\ ret.result = Flatten([i \in DOMAIN raw_overlays |->
                                    IF i \in RulesFor(ret.args[1])
                                    THEN RawVariations(i) ELSE <<>>])
        /\ RulesFor(ret.args[1]) = {} => ret.result = <<>>
        /\ ret.args[1] \in {"migo", "MIGO8"} => ret.result = <<>>

\* two MIGO rules from two files are loaded, the code is asked in lower case
C22_Witness ==
    /\ IsResult("get_overlays_for_transaction")
    /\ ret.args = <<"migo">>
    /\ Cardinality(RulesFor("MIGO")) = 2
    /\ ret.result = <<>>

(***************************************************************************)
(* C23                                                                     *)
(***************************************************************************)
\* C23: get_field_constraints, get_process_gates and get_approval_rules are
\* the variations of get_overlays_for_transaction that have a field key,
\* type process_gate and type approval_rule, in the same order.
C23_ViewsFilter ==
    /\ IsResult("get_field_constraints") =>
          ret.result = SelectSeq(get_overlays_for_transaction(ret.args[1]),
                                 LAMBDA v : "field" \in DOMAIN v)
    /\ IsResult("get_process_gates") =>
          ret.result = SelectSeq(get_overlays_for_transaction(ret.args[1]),
                                 LAMBDA v : DictGet(v, "type", "") = "process_gate")
    /\ IsResult("get_approval_rules") =>
          ret.result = SelectSeq(get_overlays_for_transaction(ret.args[1]),
                                 LAMBDA v : DictGet(v, "type", "") = "approval_rule")

\* one rule for MIGO with one variation that has field Batch: one constraint
C23_Witness ==
    /\ IsResult("get_field_constraints")
    /\ ret.args = <<"MIGO">>
    /\ raw_overlays = <<RuleBatch>>
    /\ Len(ret.result) = 1
    /\ ret.result[1].field = "Batch"

(***************************************************************************)
(* C28                                                                     *)
(***************************************************************************)
\* the number of resolved variations under the rules with transaction t
RECURSIVE CountFor(_, _)
CountFor(overlays, t) ==
    IF overlays = <<>> THEN 0
    ELSE (IF Head(overlays).transaction = t THEN Len(Head(overlays).variations) ELSE 0)
         + CountFor(Tail(overlays), t)

\* C28: resolve keeps the shape of the loaded rules: one resolved rule per
\* raw rule and one resolved variation per raw variation, in the same
\* order, so that for every code the resolved variations under that code
\* are as many as get_overlays_for_transaction returns.
C28_ResolveKeepsShape ==
    IsResult("resolve") =>
        /\ Len(ret.result.overlays) = Len(raw_overlays)
        /\ \A i \in DOMAIN raw_overlays :
              /\ ret.result.overlays[i].transaction
                    = DictGet(raw_overlays[i], "transaction", "")
              /\ Len(ret.result.overlays[i].variations) = Len(RawVariations(i))
              /\ \A j \in DOMAIN RawVariations(i) :
                    ret.result.overlays[i].variations[j].type
                        = DictGet(RawVariations(i)[j], "type", "")
        /\ \A t \in QueryCodes :
              CountFor(ret.result.overlays, t) = Len(get_overlays_for_transaction(t))

\* three rules, two of them for MIGO with one variation each
C28_Witness ==
    /\ IsResult("resolve")
    /\ raw_overlays = <<RuleBatch, RuleGate, RuleBare>>
    /\ CountFor(ret.result.overlays, "MIGO") = 2
    /\ CountFor(ret.result.overlays, "ME51N") = 0

(***************************************************************************)
(* C25                                                                     *)
(***************************************************************************)
\* C25: on the namespaced path the steps list has one TestStep per Step
\* record of the document: the Step child by which an Annotation names a
\* step gives no TestStep, whatever the number of annotations.
C25_OneStepPerRecord ==
    (pc = "idle" /\ script # NoScript /\ tosca.ns) =>
        Len(script.steps) = Len(StepRecords(tosca))

(***************************************************************************)
(* C26                                                                     *)
(***************************************************************************)
\* C26: the two lookups of a process agree: get_element_by_id of the id of
\* an element that ordered_elements returned is that element, also when
\* elements of different kinds carry the same id.
C26_LookupsAgree ==
    IsResult("ordered_elements") =>
        \A i \in DOMAIN ret.result :
            get_element_by_id(process, ret.result[i].id) = ret.result[i]

(***************************************************************************)
(* C27                                                                     *)
(***************************************************************************)
\* the loop of load is at a file that exists and holds an empty document
AtEmptyDocument ==
    /\ path_i < Len(overlay_paths)
    /\ overlay_paths[path_i + 1].exists
    /\ overlay_paths[path_i + 1].data = YamlNone

\* C27: load does not raise at a file that exists and holds an empty
\* document: the file leaves raw_overlays and site_info as they are and the
\* paths after it are loaded.
C27_EmptyDocumentSkipped ==
    /\ AtEmptyDocument => pc # "raised"
    /\ pc = "idle" =>
          /\ raw_overlays = Flatten([i \in DOMAIN overlay_paths |->
                                        FileOverlays(overlay_paths[i])])
          /\ site_info = LastSite(overlay_paths)
          /\ path_i = Len(overlay_paths)

(***************************************************************************)
(* Threads that read the assembler while or after another thread loads it. *)
(*   resolve and get_overlays_for_transaction walk self.raw_overlays with  *)
(*   a for loop: each turn takes the next rule if the list has one at that *)
(*   moment, and load's extend is one step for the readers.                *)
(***************************************************************************)
Threads == {1, 2}

IdleReader ==
    [op |-> "idle", arg |-> "", i |-> 0, site |-> EmptyDict, acc |-> <<>>,
     done |-> FALSE, loaded |-> FALSE]

\* a thread calls resolve() or get_overlays_for_transaction("MIGO")
ReaderBegin ==
    /\ pc \in {"load", "idle"}
    /\ \E r \in Threads, op \in {"resolve", "get_overlays_for_transaction"} :
          /\ readers[r].op = "idle" \/ readers[r].done
          /\ readers' = [readers EXCEPT ![r] =
                [op |-> op, arg |-> IF op = "resolve" THEN "" ELSE "MIGO", i |-> 0,
                 site |-> IF op = "resolve" THEN site_info ELSE EmptyDict,
                 acc |-> <<>>, done |-> FALSE, loaded |-> (pc = "idle")]]
    /\ UNCHANGED <<doc, process, err, pc, queue, visited, ordered, ret>>
    /\ UNCHANGED <<task, tosca, script, overlay_paths, raw_overlays, site_info, path_i>>
    /\ UNCHANGED <<environ, layers, layer_i, gen_results, ran, attempt, replies>>

\* what one turn of the reader's loop adds for a rule
ReaderTurn(op, arg, overlay) ==
    IF op = "resolve" THEN <<ResolveOverlay(overlay)>>
    ELSE IF TransactionMatches(overlay, arg) THEN DictGet(overlay, "variations", <<>>)
    ELSE <<>>

\* a thread takes the next turn of its loop, or leaves the loop and returns
ReaderStep ==
    /\ \E r \in Threads :
          /\ readers[r].op # "idle"
          /\ ~readers[r].done
          /\ readers' = [readers EXCEPT ![r] =
                IF readers[r].i < Len(raw_overlays)
                THEN [readers[r] EXCEPT
                         !.acc = @ \o ReaderTurn(readers[r].op, readers[r].arg,
                                                 raw_overlays[readers[r].i + 1]),
                         !.i = @ + 1]
                ELSE [readers[r] EXCEPT !.done = TRUE]]
    /\ UNCHANGED <<doc, process, err, pc, queue, visited, ordered, ret>>
    /\ UNCHANGED <<task, tosca, script, overlay_paths, raw_overlays, site_info, path_i>>
    /\ UNCHANGED <<environ, layers, layer_i, gen_results, ran, attempt, replies>>

\* what a call that is through returned
ReaderResult(r) ==
    IF readers[r].op = "resolve"
    THEN [site |-> readers[r].site, overlays |-> readers[r].acc]
    ELSE readers[r].acc

\* the files the threads are explored on
MaxThreadPaths == 2

ThreadFiles ==
    { MissingFile,
      OverlayFile(TRUE, [site |-> [name |-> "Anniston", code |-> "1710"],
                         overlays |-> <<RuleBatch>>]),
      OverlayFile(TRUE, [site |-> [name |-> "Huntsville"],
                         overlays |-> <<RuleGate, RuleBare>>]) }

InitThreads ==
    /\ BpmnIdle
    /\ pc = "load"
    /\ task = NoTask
    /\ tosca = NoTosca
    /\ script = NoScript
    /\ overlay_paths \in SeqsUpTo(ThreadFiles, MaxThreadPaths)
    /\ raw_overlays = <<>>
    /\ site_info = EmptyDict
    /\ path_i = 0
    /\ readers = [r \in Threads |-> IdleReader]
    /\ LayersIdle
    /\ CallIdle

NextThreads == LoadStep \/ LoadReturn \/ ReaderBegin \/ ReaderStep

SpecThreads == InitThreads /\ [][NextThreads]_vars

(***************************************************************************)
(* C24                                                                     *)
(***************************************************************************)
Prefix(s, t) == Len(s) <= Len(t) /\ s = SubSeq(t, 1, Len(s))

\* the rules the files give when load is through
LoadedRules == Flatten([i \in DOMAIN overlay_paths |-> FileOverlays(overlay_paths[i])])

\* C24: a resolve or get_overlays_for_transaction that begins after load has
\* returned gives, however the threads interleave, what the call gives when
\* run alone; a resolve that begins before load has returned sees a prefix
\* of the loaded rules.
C24_ReadersAfterLoadAgree ==
    \A r \in DOMAIN readers :
        /\ (readers[r].done /\ readers[r].loaded) =>
              ReaderResult(r) = IF readers[r].op = "resolve" THEN Resolved
                                ELSE get_overlays_for_transaction(readers[r].arg)
        /\ readers[r].op = "resolve" =>
              Prefix(readers[r].acc,
                     [i \in DOMAIN LoadedRules |-> ResolveOverlay(LoadedRules[i])])

\* load is through with three rules; one thread called resolve while the
\* first file only was loaded and has returned one rule, the other called
\* get_overlays_for_transaction after load and has returned both MIGO
\* variations
C24_Witness ==
    /\ pc = "idle"
    /\ Len(raw_overlays) = 3
    /\ readers[1].op = "resolve" /\ readers[1].done /\ ~readers[1].loaded
    /\ Len(readers[1].acc) = 1
    /\ readers[2].op = "get_overlays_for_transaction"
    /\ readers[2].done /\ readers[2].loaded
    /\ Len(ReaderResult(2)) = 2

(***************************************************************************)
(* run_generators (run.py)                                                 *)
(*   layers      the layers argument: none for None, else names, its list  *)
(*   layer_i     how many names of the list the loop has gone through      *)
(*   gen_results the results dict                                          *)
(*   ran         the generate() calls made, in order, with how each ended  *)
(*   environ     whether ANTHROPIC_API_KEY is set                          *)
(***************************************************************************)
generator_map == <<"walkthrough", "video_script", "job_aid", "walkme">>

NoLayers == [none |-> TRUE, names |-> <<>>]

LayerList(names) == [none |-> FALSE, names |-> names]

\* Variant: a failed layer leaves the results as they are
RecordedOnSuccess(results, layer_name, outcome) ==
    IF outcome.raised THEN results
    ELSE [n \in DOMAIN results \cup {layer_name} |->
             IF n = layer_name THEN outcome.paths ELSE results[n]]

\* results[layer_name] = output_paths, or [] in the except branch
Recorded(results, layer_name, outcome) ==
    [n \in DOMAIN results \cup {layer_name} |->
        IF n = layer_name
        THEN IF outcome.raised THEN <<>> ELSE outcome.paths
        ELSE results[n]]

\* how a generate() call can end
Outcomes ==
    { [raised |-> TRUE, paths |-> <<>>],
      [raised |-> FALSE, paths |-> <<>>],
      [raised |-> FALSE, paths |-> <<"out.md">>] }

\* if layers is None: layers = list(generator_map.keys()); results = {}
RunBegin ==
    /\ pc = "run_generators"
    /\ layers' = IF layers.none THEN LayerList(generator_map) ELSE layers
    /\ gen_results' = EmptyDict
    /\ pc' = "layers"
    /\ UNCHANGED <<doc, process, err, queue, visited, ordered, ret>>
    /\ UNCHANGED <<task, tosca, script, overlay_paths, raw_overlays, site_info, path_i>>
    /\ UNCHANGED <<readers, environ, layer_i, ran, attempt, replies>>

\* a name that is not in generator_map is reported and passed over
RunSkipUnknown ==
    /\ pc = "layers"
    /\ layer_i < Len(layers.names)
    /\ layers.names[layer_i + 1] \notin Range(generator_map)
    /\ layer_i' = layer_i + 1
    /\ UNCHANGED <<doc, process, err, pc, queue, visited, ordered, ret>>
    /\ UNCHANGED <<task, tosca, script, overlay_paths, raw_overlays, site_info, path_i>>
    /\ UNCHANGED <<readers, environ, layers, gen_results, ran, attempt, replies>>

\* the generator's constructor, called before the try, finds no API key
RunConstructorRaises ==
    /\ pc = "layers"
    /\ layer_i < Len(layers.names)
    /\ layers.names[layer_i + 1] \in Range(generator_map)
    /\ ~environ.api_key
    /\ pc' = "raised"
    /\ err' = "EnvironmentError"
    /\ UNCHANGED <<doc, process, queue, visited, ordered, ret>>
    /\ UNCHANGED <<task, tosca, script, overlay_paths, raw_overlays, site_info, path_i>>
    /\ UNCHANGED extras

\* one known layer: the generator is built, generate() returns its paths or
\* raises an Exception, and the layer is recorded
RunLayer ==
    /\ pc = "layers"
    /\ layer_i < Len(layers.names)
    /\ layers.names[layer_i + 1] \in Range(generator_map)
    /\ environ.api_key
    /\ \E outcome \in Outcomes :
          /\ gen_results' = Recorded(gen_results, layers.names[layer_i + 1], outcome)
          /\ ran' = Append(ran, [layer |-> layers.names[layer_i + 1], at |-> layer_i + 1,
                                 raised |-> outcome.raised, paths |-> outcome.paths])
    /\ layer_i' = layer_i + 1
    /\ UNCHANGED <<doc, process, err, pc, queue, visited, ordered, ret>>
    /\ UNCHANGED <<task, tosca, script, overlay_paths, raw_overlays, site_info, path_i>>
    /\ UNCHANGED <<readers, environ, layers, attempt, replies>>

\* return results
RunReturn ==
    /\ pc = "layers"
    /\ layer_i = Len(layers.names)
    /\ pc' = "returned"
    /\ UNCHANGED <<doc, process, err, queue, visited, ordered, ret>>
    /\ UNCHANGED <<task, tosca, script, overlay_paths, raw_overlays, site_info, path_i>>
    /\ UNCHANGED extras

\* the layer lists run_generators is explored on
MaxLayers == 3

LayerNames == Range(generator_map) \cup {"quiz"}

InitRun ==
    /\ BpmnIdle
    /\ pc = "run_generators"
    /\ task = NoTask
    /\ tosca = NoTosca
    /\ script = NoScript
    /\ overlay_paths = <<>>
    /\ raw_overlays = <<>>
    /\ site_info = EmptyDict
    /\ path_i = 0
    /\ ReadersIdle
    /\ environ \in {[api_key |-> TRUE], [api_key |-> FALSE]}
    /\ layers \in {LayerList(names) : names \in SeqsUpTo(LayerNames, MaxLayers)} \cup {NoLayers}
    /\ layer_i = 0
    /\ gen_results = <<>>
    /\ ran = <<>>
    /\ CallIdle

NextRun == RunBegin \/ RunSkipUnknown \/ RunConstructorRaises \/ RunLayer \/ RunReturn

SpecRun == InitRun /\ [][NextRun]_vars

(***************************************************************************)
(* C29                                                                     *)
(***************************************************************************)
\* the positions of the list that hold a known name
KnownPositions == {i \in DOMAIN layers.names : layers.names[i] \in Range(generator_map)}

\* the last generate() call made for a layer
LastRun(n) ==
    ran[CHOOSE k \in DOMAIN ran :
            /\ ran[k].layer = n
            /\ \A j \in DOMAIN ran : ran[j].layer = n => j <= k]

\* C29: run_generators never ends on a failure inside generate(): the call
\* that failed leaves its layer recorded with the empty list, the loop goes
\* on, and when run_generators returns, generate() has been called for every
\* position of the list holding a known name, in order, and the results have
\* exactly the requested known names as keys, each with what its last call
\* gave (the empty list if it raised).
C29_FailureContained ==
    /\ pc \in {"layers", "returned"} =>
          /\ ran # <<>> /\ ran[Len(ran)].raised =>
                /\ ran[Len(ran)].layer \in DOMAIN gen_results
                /\ gen_results[ran[Len(ran)].layer] = <<>>
          /\ \A k \in DOMAIN ran : \A j \in DOMAIN ran :
                j < k => ran[j].at < ran[k].at
    /\ pc = "raised" => ran = <<>>
    /\ pc = "returned" =>
          /\ {ran[k].at : k \in DOMAIN ran} = KnownPositions
          /\ DOMAIN gen_results = {layers.names[i] : i \in KnownPositions}
          /\ \A n \in DOMAIN gen_results :
                gen_results[n] = IF LastRun(n).raised THEN <<>> ELSE LastRun(n).paths

\* a layer, an unknown name and another layer were asked for; the first
\* layer's generate() raised, the name was passed over, and the other layer
\* ran and gave a file
C29_Witness ==
    /\ pc = "returned"
    /\ Len(layers.names) = 3
    /\ layers.names[2] \notin Range(generator_map)
    /\ Len(ran) = 2
    /\ ran[1].raised
    /\ layers.names[1] # layers.names[3]
    /\ DOMAIN gen_results = {layers.names[1], layers.names[3]}
    /\ gen_results[layers.names[1]] = <<>>
    /\ gen_results[layers.names[3]] = <<"out.md">>

(***************************************************************************)
(* BaseGenerator.call_claude (generators/base.py)                          *)
(*   attempt   the loop variable of for attempt in range(3)                *)
(*   replies   what each request sent so far was answered with             *)
(* A reply is a response (kind "ok"), an urllib.error.HTTPError (kind      *)
(* "http", with its status and body) or another exception (kind "other").  *)
(* A body is text that json.loads rejects (json FALSE) or the value it     *)
(* gives: t is the value's Python type, v its content.                     *)
(***************************************************************************)
MaxAttempts == 3

JDict(f) == [t |-> "dict", v |-> f]

JOther(type) == [t |-> type, v |-> EmptyDict]

NotJson == [json |-> FALSE, data |-> JOther("none")]

JsonBody(value) == [json |-> TRUE, data |-> value]

\* "\n".join(text_parts)
RECURSIVE JoinLines(_)
JoinLines(parts) ==
    IF parts = <<>> THEN ""
    ELSE IF Len(parts) = 1 THEN parts[1]
    ELSE parts[1] \o "\n" \o JoinLines(Tail(parts))

\* body.get("content", [])
ContentOf(body) ==
    IF "content" \in DOMAIN body.data.v THEN body.data.v["content"] ELSE <<>>

\* json.loads or the extraction of the text raises inside the try
ExtractRaises(body) ==
    \/ ~body.json
    \/ body.data.t # "dict"
    \/ \E i \in DOMAIN ContentOf(body) :
          /\ ContentOf(body)[i].type = "text"
          /\ "text" \notin DOMAIN ContentOf(body)[i]

\* the texts of the blocks of type text, joined
ExtractText(body) ==
    LET content == ContentOf(body)
        texts == SelectSeq(content, LAMBDA block : block.type = "text")
    IN  JoinLines([i \in DOMAIN texts |-> texts[i].text])

\* error_data.get("error", {}).get("message", error_body) raises inside the
\* handler: error_data or error_data["error"] is not a dict
HandlerRaises(body) ==
    /\ body.json
    /\ \/ body.data.t # "dict"
       \/ /\ "error" \in DOMAIN body.data.v
          /\ body.data.v["error"].t # "dict"

\* e.code in (429, 500, 502, 503, 529)
RetryCodes == {429, 500, 502, 503, 529}

\* the replies call_claude is explored on
OkBodies ==
    { JsonBody(JDict([content |-> <<[type |-> "text", text |-> "Step 1"]>>])),
      JsonBody(JDict([content |-> <<[type |-> "text", text |-> "Step 1"],
                                    [type |-> "tool_use"],
                                    [type |-> "text", text |-> "Step 2"]>>])),
      JsonBody(JDict(EmptyDict)),
      JsonBody(JDict([content |-> <<[type |-> "text"]>>])),
      JsonBody(JOther("list")),
      NotJson }

ErrorBodies ==
    { NotJson,
      JsonBody(JDict([error |-> JDict([message |-> "Overloaded"])])),
      JsonBody(JDict(EmptyDict)),
      JsonBody(JDict([error |-> JOther("str")])),
      JsonBody(JOther("list")) }

Replies ==
    {[kind |-> "ok", code |-> 200, body |-> b] : b \in OkBodies}
    \cup {[kind |-> "http", code |-> c, body |-> b] :
             c \in RetryCodes \cup {400, 401}, b \in ErrorBodies}
    \cup {[kind |-> "other", code |-> 0, body |-> NotJson]}

\* the response is read and its text returned
CallReturns ==
    /\ pc = "call_claude"
    /\ attempt < MaxAttempts
    /\ \E reply \in {r \in Replies : r.kind = "ok" /\ ~ExtractRaises(r.body)} :
          /\ replies' = Append(replies, reply)
          /\ ret' = [op |-> "call_claude", args |-> <<>>, result |-> ExtractText(reply.body)]
    /\ pc' = "returned"
    /\ UNCHANGED <<doc, process, err, queue, visited, ordered>>
    /\ UNCHANGED <<task, tosca, script, overlay_paths, raw_overlays, site_info, path_i>>
    /\ UNCHANGED <<readers, environ, layers, layer_i, gen_results, ran, attempt>>

\* except urllib.error.HTTPError
CallHttpError ==
    /\ pc = "call_claude"
    /\ attempt < MaxAttempts
    /\ \E reply \in {r \in Replies : r.kind = "http"} :
          /\ replies' = Append(replies, reply)
          /\ IF HandlerRaises(reply.body)
             THEN pc' = "raised" /\ err' = "AttributeError" /\ attempt' = attempt
             ELSE IF attempt < 2 /\ reply.code \in RetryCodes
             THEN pc' = pc /\ err' = err /\ attempt' = attempt + 1
             ELSE pc' = "raised" /\ err' = "RuntimeError" /\ attempt' = attempt
    /\ UNCHANGED <<doc, process, queue, visited, ordered, ret>>
    /\ UNCHANGED <<task, tosca, script, overlay_paths, raw_overlays, site_info, path_i>>
    /\ UNCHANGED <<readers, environ, layers, layer_i, gen_results, ran>>

\* except Exception: urlopen raised something else, or the response could
\* not be read as the try expects
CallException ==
    /\ pc = "call_claude"
    /\ attempt < MaxAttempts
    /\ \E reply \in {r \in Replies : \/ r.kind = "other"
                                     \/ r.kind = "ok" /\ ExtractRaises(r.body)} :
          replies' = Append(replies, reply)
    /\ IF attempt < 2
       THEN pc' = pc /\ err' = err /\ attempt' = attempt + 1
       ELSE pc' = "raised" /\ err' = "RuntimeError" /\ attempt' = attempt
    /\ UNCHANGED <<doc, process, queue, visited, ordered, ret>>
    /\ UNCHANGED <<task, tosca, script, overlay_paths, raw_overlays, site_info, path_i>>
    /\ UNCHANGED <<readers, environ, layers, layer_i, gen_results, ran>>

InitCall ==
    /\ BpmnIdle
    /\ pc = "call_claude"
    /\ task = NoTask
    /\ tosca = NoTosca
    /\ script = NoScript
    /\ overlay_paths = <<>>
    /\ raw_overlays = <<>>
    /\ site_info = EmptyDict
    /\ path_i = 0
    /\ ReadersIdle
    /\ LayersIdle
    /\ attempt = 0
    /\ replies = <<>>

NextCall == CallReturns \/ CallHttpError \/ CallException

SpecCall == InitCall /\ [][NextCall]_vars

(***************************************************************************)
(* C30                                                                     *)
(***************************************************************************)
\* the reply at position k was followed by another request
Retried(k) == k < Len(replies) \/ (k = Len(replies) /\ pc = "call_claude")

\* C30: a call sends at most three requests; a request is followed by
\* another only on attempts 1 and 2 and only after an HTTP status of
\* RetryCodes or an exception that is no HTTPError; any other HTTP status
\* raises RuntimeError on its attempt; the call ends by returning the text
\* or raising RuntimeError, and the loop never runs out.
C30_ReturnsOrRuntimeError ==
    /\ Len(replies) <= MaxAttempts
    /\ pc = "call_claude" => attempt < MaxAttempts
    /\ \A k \in DOMAIN replies :
          /\ Retried(k) =>
                /\ k <= 2
                /\ \/ replies[k].kind = "http" /\ replies[k].code \in RetryCodes
                   \/ replies[k].kind = "other"
                   \/ replies[k].kind = "ok" /\ ExtractRaises(replies[k].body)
          /\ (replies[k].kind = "http" /\ replies[k].code \notin RetryCodes) =>
                k = Len(replies) /\ pc = "raised" /\ err = "RuntimeError"
    /\ pc = "raised" => err = "RuntimeError"
    /\ pc = "returned" => ret.op = "call_claude"

====
